---- MODULE Spec2Model ----
(***************************************************************************)
(* Skill matching, gap analysis and fit score of the resume / job          *)
(* description analyser (backend/app/services).                            *)
(*                                                                         *)
(* Skill names are strings; a character is a string of length one.         *)
(* Confidences and similarity ratios are exact rationals [n, d] (d > 0).   *)
(* Resume indices are 0-based as in the source.                            *)
(***************************************************************************)
EXTENDS Integers, Sequences, FiniteSets, TLC

(***************************************************************************)
(* Bounds of the model.                                                    *)
(***************************************************************************)
MaxResume == 2
MaxJd == 2

\* Python's None, and a present optional value.
None == [none |-> TRUE]
Some(v) == [some |-> v]

\* The same function, stored as an explicit table.
Tabulated(f) == f @@ <<>>

Max(a, b) == IF a >= b THEN a ELSE b
Min(a, b) == IF a <= b THEN a ELSE b

(***************************************************************************)
(* Strings.                                                                *)
(***************************************************************************)
CharAt(s, i) == SubSeq(s, i, i)

LowerOf ==
    ("A" :> "a") @@ ("B" :> "b") @@ ("C" :> "c") @@ ("D" :> "d") @@
    ("E" :> "e") @@ ("F" :> "f") @@ ("G" :> "g") @@ ("H" :> "h") @@
    ("I" :> "i") @@ ("J" :> "j") @@ ("K" :> "k") @@ ("L" :> "l") @@
    ("M" :> "m") @@ ("N" :> "n") @@ ("O" :> "o") @@ ("P" :> "p") @@
    ("Q" :> "q") @@ ("R" :> "r") @@ ("S" :> "s") @@ ("T" :> "t") @@
    ("U" :> "u") @@ ("V" :> "v") @@ ("W" :> "w") @@ ("X" :> "x") @@
    ("Y" :> "y") @@ ("Z" :> "z")

RECURSIVE Lower(_)
Lower(s) ==
    IF s = "" THEN ""
    ELSE (IF Head(s) \in DOMAIN LowerOf THEN LowerOf[Head(s)] ELSE Head(s))
         \o Lower(Tail(s))

IsSpace(c) == c \in {" ", "\t", "\n", "\r"}

RECURSIVE LStrip(_)
LStrip(s) == IF s # "" /\ IsSpace(Head(s)) THEN LStrip(Tail(s)) ELSE s

RECURSIVE RStrip(_)
RStrip(s) ==
    IF s # "" /\ IsSpace(CharAt(s, Len(s)))
    THEN RStrip(SubSeq(s, 1, Len(s) - 1))
    ELSE s

Strip(s) == LStrip(RStrip(s))

StartsWith(s, p) == Len(s) >= Len(p) /\ SubSeq(s, 1, Len(p)) = p
EndsWith(s, p) == Len(s) >= Len(p) /\ SubSeq(s, Len(s) - Len(p) + 1, Len(s)) = p

\* re.sub(r'\.js$', '', s) and its siblings: drop the literal suffix.
SubSuffix(s, suffix) ==
    IF EndsWith(s, suffix) THEN SubSeq(s, 1, Len(s) - Len(suffix)) ELSE s

\* re.sub(r'\s+', ' ', s): every maximal run of whitespace becomes one space.
RECURSIVE SubWhitespace(_)
SubWhitespace(s) ==
    IF s = "" THEN ""
    ELSE IF IsSpace(Head(s)) THEN " " \o SubWhitespace(LStrip(s))
    ELSE Head(s) \o SubWhitespace(Tail(s))

\* re.sub(r'[-_]', ' ', s)
RECURSIVE SubHyphen(_)
SubHyphen(s) ==
    IF s = "" THEN ""
    ELSE (IF Head(s) \in {"-", "_"} THEN " " ELSE Head(s)) \o SubHyphen(Tail(s))

NORMALIZATION_RULES(s) ==
    SubHyphen(SubWhitespace(
        SubSuffix(SubSuffix(SubSuffix(SubSuffix(s, ".js"), ".jsx"), ".ts"), ".tsx")))

PrefixWords == {"proficient", "experienced", "skilled", "expert", "knowledge", "familiar"}
SuffixWords == {"experience", "proficiency", "skill", "skills", "knowledge"}

\* re.sub(r'^(proficient|...|familiar)\s+', '', s)
SubPrefixWord(s) ==
    IF \E w \in PrefixWords :
          /\ StartsWith(s, w)
          /\ Len(s) > Len(w)
          /\ IsSpace(CharAt(s, Len(w) + 1))
    THEN LET w == CHOOSE v \in PrefixWords :
                    /\ StartsWith(s, v)
                    /\ Len(s) > Len(v)
                    /\ IsSpace(CharAt(s, Len(v) + 1))
         IN  LStrip(SubSeq(s, Len(w) + 1, Len(s)))
    ELSE s

\* re.sub(r'\s+(experience|proficiency|skills?|knowledge)$', '', s)
SubSuffixWord(s) ==
    IF \E w \in SuffixWords :
          /\ EndsWith(s, w)
          /\ Len(s) > Len(w)
          /\ IsSpace(CharAt(s, Len(s) - Len(w)))
    THEN LET w == CHOOSE v \in SuffixWords :
                    /\ EndsWith(s, v)
                    /\ Len(s) > Len(v)
                    /\ IsSpace(CharAt(s, Len(s) - Len(v)))
         IN  RStrip(SubSeq(s, 1, Len(s) - Len(w)))
    ELSE s

normalize_skill_name(skill_name) ==
    IF skill_name = "" THEN ""
    ELSE SubSuffixWord(SubPrefixWord(
             Strip(SubWhitespace(NORMALIZATION_RULES(Strip(Lower(skill_name)))))))

(***************************************************************************)
(* The synonym table and its resolution.                                   *)
(***************************************************************************)
SKILL_SYNONYMS ==
    ("javascript" :> {"ecmascript", "js", "node.js", "nodejs"}) @@
    ("typescript" :> {"ts"}) @@
    ("c++" :> {"c plus plus", "cpp"}) @@
    ("c#" :> {".net", "c-sharp", "csharp", "dotnet"}) @@
    ("python" :> {"py"}) @@
    ("java" :> {"jvm"}) @@
    ("go" :> {"golang"}) @@
    ("react" :> {"react.js", "reactjs"}) @@
    ("angular" :> {"angular.js", "angularjs"}) @@
    ("vue" :> {"vue.js", "vuejs"}) @@
    ("node.js" :> {"node", "nodejs", "npm"}) @@
    ("spring boot" :> {"spring", "springboot"}) @@
    ("aws" :> {"amazon aws", "amazon web services"}) @@
    ("azure" :> {"microsoft azure"}) @@
    ("gcp" :> {"google cloud", "google cloud platform"}) @@
    ("kubernetes" :> {"k8s"}) @@
    ("ci/cd" :> {"cicd", "continuous deployment", "continuous integration"}) @@
    ("postgresql" :> {"postgres"}) @@
    ("mongodb" :> {"mongo"}) @@
    ("agile" :> {"agile development", "agile methodology"}) @@
    ("scrum" :> {"scrum methodology"}) @@
    ("problem solving" :> {"debugging", "problem-solving", "troubleshooting"}) @@
    ("communication" :> {"communication skills", "verbal communication", "written communication"}) @@
    ("leadership" :> {"leadership skills", "team leadership"})

\* [SkillMatcher.normalize_skill_name(k) for k in [key] + list(values)]
NormalizedEntry ==
    Tabulated([key \in DOMAIN SKILL_SYNONYMS |->
        {normalize_skill_name(k) : k \in {key} \cup SKILL_SYNONYMS[key]}])

\* SkillMatcher.normalize_skill_name(key)
NormalizedKey ==
    Tabulated([key \in DOMAIN SKILL_SYNONYMS |-> normalize_skill_name(key)])

\* synonyms.add(key); synonyms.update(values), for every key of the set.
SynonymsOf(keys) == UNION {{key} \cup SKILL_SYNONYMS[key] : key \in keys}

\* Variant: the first loop without its elif branch.
DirectKeys_Literal(normalized) ==
    {key \in DOMAIN SKILL_SYNONYMS :
        \/ normalized = key
        \/ normalized \in SKILL_SYNONYMS[key]}

\* The first loop of get_synonyms: the entries the normalized name is in.
DirectKeys(normalized) ==
    {key \in DOMAIN SKILL_SYNONYMS :
        \/ normalized = key
        \/ normalized \in SKILL_SYNONYMS[key]
        \/ normalized \in NormalizedEntry[key]}

\* The second loop of get_synonyms: the keys whose normalized form is the name.
ReverseKeys(normalized) ==
    {key \in DOMAIN SKILL_SYNONYMS : normalized = NormalizedKey[key]}

\* The synonyms of a name that is already normalized.
SynonymsOfNormalized(normalized) ==
    {normalized}
    \cup SynonymsOf(DirectKeys(normalized))
    \cup SynonymsOf(ReverseKeys(normalized))

\* Variant: the table is looked up without normalizing its entries.
get_synonyms_Unnormalized(skill_name) ==
    {normalize_skill_name(skill_name)}
    \cup SynonymsOf({key \in DOMAIN SKILL_SYNONYMS :
                        \/ normalize_skill_name(skill_name) = key
                        \/ normalize_skill_name(skill_name) \in SKILL_SYNONYMS[key]})

get_synonyms(skill_name) == SynonymsOfNormalized(normalize_skill_name(skill_name))

(***************************************************************************)
(* String similarity.  With the Levenshtein package the ratio is           *)
(* (lensum - indel distance) / lensum = 2 * LCS / lensum; without it the   *)
(* fallback is difflib's SequenceMatcher(None, s1, s2).ratio() = 2 * M / T *)
(* with M the characters in the matching blocks.                           *)
(***************************************************************************)
Ratio(n, d) == [n |-> n, d |-> d]
Less(a, b) == a.n * b.d < b.n * a.d
Leq(a, b) == a.n * b.d <= b.n * a.d
Same(a, b) == a.n * b.d = b.n * a.d

\* One row of the LCS table: prev is the row of the previous character of s1.
LcsRow(prev, c, s2) ==
    LET cur[j \in 0..Len(s2)] ==
            IF j = 0 THEN 0
            ELSE IF CharAt(s2, j) = c THEN prev[j - 1] + 1
            ELSE Max(prev[j], cur[j - 1])
    IN  Tabulated(cur)

RECURSIVE LcsRows(_, _, _)
LcsRows(prev, s1, s2) ==
    IF s1 = "" THEN prev[Len(s2)]
    ELSE LcsRows(LcsRow(prev, Head(s1), s2), Tail(s1), s2)

LcsLen(s1, s2) == LcsRows([j \in 0..Len(s2) |-> 0], s1, s2)

RECURSIVE CommonLen(_, _, _, _)
CommonLen(a, i, b, j) ==
    IF i <= Len(a) /\ j <= Len(b) /\ CharAt(a, i) = CharAt(b, j)
    THEN 1 + CommonLen(a, i + 1, b, j + 1)
    ELSE 0

\* SequenceMatcher.find_longest_match: the longest block, earliest in a, then
\* earliest in b.
SetMax(S) == CHOOSE x \in S : \A y \in S : x >= y
SetMin(S) == CHOOSE x \in S : \A y \in S : x <= y

\* The length of the common block starting at every pair of positions.
BlockSizes(a, b) ==
    Tabulated([p \in (1..Len(a)) \X (1..Len(b)) |-> CommonLen(a, p[1], b, p[2])])

LongestBlock(size) ==
    LET k == SetMax({size[p] : p \in DOMAIN size})
        i == SetMin({p[1] : p \in {q \in DOMAIN size : size[q] = k}})
        j == SetMin({p[2] : p \in {q \in DOMAIN size : size[q] = k /\ q[1] = i}})
    IN  [i |-> i, j |-> j, k |-> k]

find_longest_match(a, b) == LongestBlock(BlockSizes(a, b))

\* SequenceMatcher.get_matching_blocks: total size of the matching blocks,
\* the longest block m first, then the blocks to its left and to its right.
RECURSIVE MatchingChars(_, _)
RECURSIVE BlockChars(_, _, _)
BlockChars(a, b, m) ==
    IF m.k = 0 THEN 0
    ELSE m.k
         + MatchingChars(SubSeq(a, 1, m.i - 1), SubSeq(b, 1, m.j - 1))
         + MatchingChars(SubSeq(a, m.i + m.k, Len(a)), SubSeq(b, m.j + m.k, Len(b)))

MatchingChars(a, b) ==
    IF a = "" \/ b = "" THEN 0 ELSE BlockChars(a, b, find_longest_match(a, b))

levenshtein_ratio(installed, s1, s2) ==
    IF Len(s1) + Len(s2) = 0 THEN Ratio(1, 1)
    ELSE IF installed THEN Ratio(2 * LcsLen(s1, s2), Len(s1) + Len(s2))
    ELSE Ratio(2 * MatchingChars(s1, s2), Len(s1) + Len(s2))

(***************************************************************************)
(* Skills and the 4-tier pairwise test (SkillMatcher.match_skills).        *)
(* Thresholds and confidence factors are in hundredths.                    *)
(***************************************************************************)
FUZZY_THRESHOLD == 85
EXACT_MATCH_CONFIDENCE == 100
SYNONYM_MATCH_CONFIDENCE == 95
FUZZY_MATCH_CONFIDENCE == 80
CATEGORY_MATCH_CONFIDENCE == 70
CATEGORY_THRESHOLD == 60

Skill(name, category) == [name |-> name, category |-> category]
SkillMatch(skill, match_type, confidence) ==
    [skill |-> skill, match_type |-> match_type, confidence |-> confidence]

\* Variant: the names are compared as given.
exact_match_CaseSensitive(skill1, skill2) == skill1.name = skill2.name

exact_match(skill1, skill2) ==
    normalize_skill_name(skill1.name) = normalize_skill_name(skill2.name)

\* Variant: the second name is looked up among the synonyms of the first.
synonym_match_OneWay(skill1, skill2) ==
    normalize_skill_name(skill2.name) \in get_synonyms(skill1.name)

synonym_match(skill1, skill2) ==
    get_synonyms(skill1.name) \cap get_synonyms(skill2.name) # {}

\* similarity >= threshold, with the threshold in hundredths.
AtLeast(similarity, threshold) == similarity.n * 100 >= threshold * similarity.d

\* similarity * confidence, with the confidence in hundredths.
Times(similarity, confidence) == Ratio(similarity.n * confidence, similarity.d * 100)

\* levenshtein_ratio(name1, name2) of the normalized names.
Similarity(installed, skill1, skill2) ==
    levenshtein_ratio(installed,
                      normalize_skill_name(skill1.name),
                      normalize_skill_name(skill2.name))

\* return similarity >= threshold, similarity
FuzzyResult(similarity) ==
    [is_match |-> AtLeast(similarity, FUZZY_THRESHOLD), similarity |-> similarity]

fuzzy_match(installed, skill1, skill2) ==
    FuzzyResult(Similarity(installed, skill1, skill2))

category_match(skill1, skill2) == skill1.category = skill2.category

\* Variant: the categories are not compared.
CategoryTier_AnyCategory(skill, same_category, similarity) ==
    IF AtLeast(similarity, CATEGORY_THRESHOLD)
    THEN SkillMatch(skill, "category", Times(similarity, CATEGORY_MATCH_CONFIDENCE))
    ELSE None

\* Variant: the category confidence is the similarity itself.
CategoryTier_Unscaled(skill, same_category, similarity) ==
    IF same_category /\ AtLeast(similarity, CATEGORY_THRESHOLD)
    THEN SkillMatch(skill, "category", similarity)
    ELSE None

\* The fourth tier of match_skills: same category and similarity >= 0.6.
CategoryTier(skill, same_category, similarity) ==
    IF same_category /\ AtLeast(similarity, CATEGORY_THRESHOLD)
    THEN SkillMatch(skill, "category", Times(similarity, CATEGORY_MATCH_CONFIDENCE))
    ELSE None

\* The third tier of match_skills, and the fourth when it fails.
FuzzyTier(skill, fuzzy, category_tier) ==
    IF fuzzy.is_match
    THEN SkillMatch(skill, "fuzzy", Times(fuzzy.similarity, FUZZY_MATCH_CONFIDENCE))
    ELSE category_tier

\* Variant: the match carries the second skill.
match_skills_SecondSkill(installed, skill1, skill2) ==
    IF exact_match(skill1, skill2)
    THEN SkillMatch(skill2, "exact", Ratio(EXACT_MATCH_CONFIDENCE, 100))
    ELSE IF synonym_match(skill1, skill2)
    THEN SkillMatch(skill2, "synonym", Ratio(SYNONYM_MATCH_CONFIDENCE, 100))
    ELSE FuzzyTier(skill2, fuzzy_match(installed, skill1, skill2),
                   CategoryTier(skill2, category_match(skill1, skill2),
                                Similarity(installed, skill1, skill2)))

match_skills(installed, skill1, skill2) ==
    IF exact_match(skill1, skill2)
    THEN SkillMatch(skill1, "exact", Ratio(EXACT_MATCH_CONFIDENCE, 100))
    ELSE IF synonym_match(skill1, skill2)
    THEN SkillMatch(skill1, "synonym", Ratio(SYNONYM_MATCH_CONFIDENCE, 100))
    ELSE FuzzyTier(skill1, fuzzy_match(installed, skill1, skill2),
                   CategoryTier(skill1, category_match(skill1, skill2),
                                Similarity(installed, skill1, skill2)))

(***************************************************************************)
(* The skills the request lists are drawn from.  match_skills is a pure    *)
(* function, so its results on these skills are tabulated once.            *)
(***************************************************************************)
SkillPool ==
    {Skill("Python", "programming_languages"),
     Skill("python", "other"),
     Skill("py", "programming_languages"),
     Skill("Pythons", "programming_languages"),
     Skill("Pyhton", "programming_languages"),
     Skill("Leadership", "leadership")}

MatchTable ==
    Tabulated([installed \in BOOLEAN |->
        Tabulated([pair \in SkillPool \X SkillPool |->
            match_skills(installed, pair[1], pair[2])])])

\* SkillMatcher.match_skills(skill1, skill2) on skills of the pool.
Match(installed, skill1, skill2) == MatchTable[installed][<<skill1, skill2>>]

NormalizedName ==
    Tabulated([skill \in SkillPool |-> normalize_skill_name(skill.name)])

\* SkillMatcher.normalize_skill_name(skill.name) on skills of the pool.
Normalized(skill) == NormalizedName[skill]

(***************************************************************************)
(* SkillMatcher.find_matches: a greedy pass over the JD skills.            *)
(***************************************************************************)
NoBest == [best_match |-> None, best_match_index |-> -1, best_confidence |-> Ratio(0, 1)]

\* Variant: a candidate of equal confidence replaces the best so far.
Better_LastWins(best, idx, match) ==
    IF match # None /\ Leq(best.best_confidence, match.confidence)
    THEN [best_match |-> match, best_match_index |-> idx,
          best_confidence |-> match.confidence]
    ELSE best

\* if match and match.confidence > best_confidence: the candidate replaces the best.
Better(best, idx, match) ==
    IF match # None /\ Less(best.best_confidence, match.confidence)
    THEN [best_match |-> match, best_match_index |-> idx,
          best_confidence |-> match.confidence]
    ELSE best

\* Variant: consumed resume indices are not skipped.
RECURSIVE ScanResume_NoSkip(_, _, _, _, _, _)
ScanResume_NoSkip(installed, resume, jd_skill, consumed, idx, best) ==
    IF idx >= Len(resume) THEN best
    ELSE ScanResume_NoSkip(installed, resume, jd_skill, consumed, idx + 1,
                           Better(best, idx, Match(installed, resume[idx + 1], jd_skill)))

\* The inner loop over enumerate(resume_skills), from index idx on.
RECURSIVE ScanResume(_, _, _, _, _, _)
ScanResume(installed, resume, jd_skill, consumed, idx, best) ==
    IF idx >= Len(resume) THEN best
    ELSE ScanResume(installed, resume, jd_skill, consumed, idx + 1,
                    IF idx \in consumed THEN best
                    ELSE Better(best, idx, Match(installed, resume[idx + 1], jd_skill)))

\* Variant: the match is put in front of the matches.
Record_Prepend(loop, best) ==
    IF best.best_match # None
    THEN [matches |-> <<best.best_match>> \o loop.matches,
          matched_resume_indices |->
              loop.matched_resume_indices \cup {best.best_match_index}]
    ELSE loop

\* Variant: the index of the match is not added to matched_resume_indices.
Record_NoConsume(loop, best) ==
    IF best.best_match # None
    THEN [matches |-> Append(loop.matches, best.best_match),
          matched_resume_indices |-> loop.matched_resume_indices]
    ELSE loop

\* if best_match: matches.append(best_match); matched_resume_indices.add(...)
Record(loop, best) ==
    IF best.best_match # None
    THEN [matches |-> Append(loop.matches, best.best_match),
          matched_resume_indices |->
              loop.matched_resume_indices \cup {best.best_match_index}]
    ELSE loop

\* One iteration of the loop over jd_skills.
JdIteration(installed, resume, jd_skill, loop) ==
    Record(loop, ScanResume(installed, resume, jd_skill,
                            loop.matched_resume_indices, 0, NoBest))

RECURSIVE JdLoop(_, _, _, _, _)
JdLoop(installed, resume, jd, pos, loop) ==
    IF pos > Len(jd) THEN loop
    ELSE JdLoop(installed, resume, jd, pos + 1,
                JdIteration(installed, resume, jd[pos], loop))

find_matches(installed, resume, jd) ==
    JdLoop(installed, resume, jd, 1,
           [matches |-> <<>>, matched_resume_indices |-> {}]).matches

SeqRange(s) == {s[i] : i \in 1..Len(s)}

\* {normalize_skill_name(match.skill.name) for match in matches}
MatchedNames(found) == {Normalized(m.skill) : m \in SeqRange(found)}

\* Variant: a JD skill is missing when its name is not a matched name.
MissingGiven_NameOnly(installed, resume, jd, matched_jd_skill_names) ==
    LET IsMissing(jd_skill) == Normalized(jd_skill) \notin matched_jd_skill_names
    IN  SelectSeq(jd, IsMissing)

\* The loop of find_missing_skills over jd_skills.
MissingGiven(installed, resume, jd, matched_jd_skill_names) ==
    LET IsMissing(jd_skill) ==
            /\ Normalized(jd_skill) \notin matched_jd_skill_names
            /\ ~ \E i \in 1..Len(resume) :
                     Match(installed, resume[i], jd_skill) # None
    IN  SelectSeq(jd, IsMissing)

find_missing_skills(installed, resume, jd) ==
    MissingGiven(installed, resume, jd, MatchedNames(find_matches(installed, resume, jd)))

\* Variant: nothing is extra when the JD lists no skill.
ExtraGiven_EmptyJd(installed, resume, jd, matched_resume_skill_names) ==
    LET IsExtra(resume_skill) ==
            /\ Normalized(resume_skill) \notin matched_resume_skill_names
            /\ ~ \E j \in 1..Len(jd) :
                     Match(installed, resume_skill, jd[j]) # None
    IN  IF jd = <<>> THEN <<>> ELSE SelectSeq(resume, IsExtra)

\* The loop of find_extra_skills over resume_skills.
ExtraGiven(installed, resume, jd, matched_resume_skill_names) ==
    LET IsExtra(resume_skill) ==
            /\ Normalized(resume_skill) \notin matched_resume_skill_names
            /\ ~ \E j \in 1..Len(jd) :
                     Match(installed, resume_skill, jd[j]) # None
    IN  SelectSeq(resume, IsExtra)

find_extra_skills(installed, resume, jd) ==
    ExtraGiven(installed, resume, jd, MatchedNames(find_matches(installed, resume, jd)))

(***************************************************************************)
(* GapAnalyzer.                                                            *)
(***************************************************************************)
TECHNICAL_CATEGORIES ==
    {"programming_languages", "frameworks_libraries", "tools_platforms",
     "databases", "cloud_services", "devops", "software_architecture",
     "machine_learning", "blockchain", "cybersecurity", "data_science"}

SOFT_SKILL_CATEGORIES ==
    {"leadership", "communication", "collaboration", "problem_solving",
     "analytical_thinking"}

CountIn(s, P(_)) == Len(SelectSeq(s, P))

\* Variant: only the categories of the matched skills get an entry.
_generate_category_breakdown_MatchedOnly(matched, missing, extra) ==
    LET touched == {m.skill.category : m \in SeqRange(matched)}
    IN  [category \in touched |->
            [matched |-> CountIn(matched,
                                 LAMBDA m : m.skill.category = category),
             missing |-> CountIn(missing,
                                 LAMBDA s : s.category = category),
             extra |-> CountIn(extra,
                               LAMBDA s : s.category = category)]]

_generate_category_breakdown(matched, missing, extra) ==
    LET touched == {m.skill.category : m \in SeqRange(matched)}
                   \cup {s.category : s \in SeqRange(missing)}
                   \cup {s.category : s \in SeqRange(extra)}
    IN  [category \in touched |->
            [matched |-> CountIn(matched,
                                 LAMBDA m : m.skill.category = category),
             missing |-> CountIn(missing,
                                 LAMBDA s : s.category = category),
             extra |-> CountIn(extra,
                               LAMBDA s : s.category = category)]]

GapAnalysis(matched, missing, extra) ==
    [matched_skills |-> matched,
     missing_skills |-> missing,
     extra_skills |-> extra,
     category_breakdown |->
         _generate_category_breakdown(matched, missing, extra)]

(***************************************************************************)
(* FitScoreCalculator.  Weights are given in hundredths (or None); scores  *)
(* are rationals until they are rounded to hundredths in the breakdown.    *)
(***************************************************************************)
DEFAULT_TECHNICAL_WEIGHT == 70
DEFAULT_SOFT_SKILLS_WEIGHT == 30

\* round(x, 2), as a number of hundredths.
Round2(x) == (200 * x.n + x.d) \div (2 * x.d)

ZeroDivisionError == [error |-> "ZeroDivisionError"]
ValidationError == [error |-> "ValidationError"]
IsError(x) == "error" \in DOMAIN x

\* (matched / required) * 100.0
Percent(matched, required) ==
    IF required = 0 THEN ZeroDivisionError ELSE Ratio(100 * matched, required)

\* Variant: max(0.0, score), without the upper bound.
Clamp_NoUpper(score) ==
    IF IsError(score) THEN score
    ELSE IF Less(score, Ratio(0, 1)) THEN Ratio(0, 1)
    ELSE score

\* min(100.0, max(0.0, score))
Clamp(score) ==
    IF IsError(score) THEN score
    ELSE IF Less(score, Ratio(0, 1)) THEN Ratio(0, 1)
    ELSE IF Less(Ratio(100, 1), score) THEN Ratio(100, 1)
    ELSE score

\* Variant: no guard for a JD without technical skills.
_calculate_technical_score_NoGuard(gap, jd) ==
    LET jd_technical ==
            CountIn(jd, LAMBDA skill : skill.category \in TECHNICAL_CATEGORIES)
        matched_technical ==
            CountIn(gap.matched_skills,
                    LAMBDA match : match.skill.category \in TECHNICAL_CATEGORIES)
    IN  Clamp(Percent(matched_technical, jd_technical))

_calculate_technical_score(gap, jd) ==
    LET jd_technical ==
            CountIn(jd, LAMBDA skill : skill.category \in TECHNICAL_CATEGORIES)
        matched_technical ==
            CountIn(gap.matched_skills,
                    LAMBDA match : match.skill.category \in TECHNICAL_CATEGORIES)
    IN  IF jd_technical = 0 THEN Ratio(100, 1)
        ELSE Clamp(Percent(matched_technical, jd_technical))

_calculate_soft_skills_score(gap, jd) ==
    LET jd_soft ==
            CountIn(jd, LAMBDA skill : skill.category \in SOFT_SKILL_CATEGORIES)
        matched_soft ==
            CountIn(gap.matched_skills,
                    LAMBDA match : match.skill.category \in SOFT_SKILL_CATEGORIES)
    IN  IF jd_soft = 0 THEN Ratio(100, 1)
        ELSE Clamp(Percent(matched_soft, jd_soft))

(***************************************************************************)
(* Education and certification scores.  An optional string is None or      *)
(* Some(string); it is truthy when it is a non-empty string.               *)
(***************************************************************************)
Truthy(opt) == opt # None /\ opt.some # ""

Education(degree, field, required, preferred) ==
    [degree |-> degree, field |-> field, required |-> required, preferred |-> preferred]

Certification(name, issuer, required, preferred) ==
    [name |-> name, issuer |-> issuer, required |-> required, preferred |-> preferred]

\* sub in s
Contains(s, sub) ==
    \/ sub = ""
    \/ \E i \in 1..(Len(s) - Len(sub) + 1) : SubSeq(s, i, i + Len(sub) - 1) = sub

\* degree_mapping, in insertion order.
degree_mapping ==
    << <<"bachelor", "bachelor">>, <<"bachelor's", "bachelor">>, <<"bs", "bachelor">>,
       <<"ba", "bachelor">>, <<"b.sc", "bachelor">>,
       <<"master", "master">>, <<"master's", "master">>, <<"ms", "master">>,
       <<"ma", "master">>, <<"m.sc", "master">>,
       <<"phd", "phd">>, <<"ph.d", "phd">>, <<"doctorate", "phd">>, <<"doctor", "phd">> >>

\* for key, value in degree_mapping.items(): if key in degree_lower: return value
RECURSIVE FirstMapped(_, _)
FirstMapped(degree_lower, k) ==
    IF k > Len(degree_mapping) THEN degree_lower
    ELSE IF Contains(degree_lower, degree_mapping[k][1]) THEN degree_mapping[k][2]
    ELSE FirstMapped(degree_lower, k + 1)

_normalize_degree(degree) == FirstMapped(Strip(Lower(degree)), 1)

_normalize_field(field) == Strip(Lower(field))

\* The test of the inner loop of _match_education on one pair.
EducationMatches(jd_edu, resume_edu) ==
    /\ Truthy(jd_edu.degree)
    /\ Truthy(resume_edu.degree)
    /\ _normalize_degree(jd_edu.degree.some) = _normalize_degree(resume_edu.degree.some)
    /\ Truthy(jd_edu.field) =>
           /\ Truthy(resume_edu.field)
           /\ _normalize_field(jd_edu.field.some) = _normalize_field(resume_edu.field.some)

\* Variant: the field of study is not compared.
_match_education_DegreeOnly(resume_education, jd_education) ==
    LET Matched(jd_edu) ==
            \E i \in 1..Len(resume_education) :
                /\ Truthy(jd_edu.degree)
                /\ Truthy(resume_education[i].degree)
                /\ _normalize_degree(jd_edu.degree.some)
                       = _normalize_degree(resume_education[i].degree.some)
    IN  SelectSeq(jd_education, Matched)

\* Each JD entry is appended once, at the first resume entry that matches it.
_match_education(resume_education, jd_education) ==
    LET Matched(jd_edu) ==
            \E i \in 1..Len(resume_education) :
                EducationMatches(jd_edu, resume_education[i])
    IN  SelectSeq(jd_education, Matched)

IsRequired(entry) == entry.required
IsPreferred(entry) == entry.preferred

\* min(100.0, base_score + bonus), bonus = matched / preferred * 20.0
WithBonus(preferred_matches, preferred) ==
    Clamp(Ratio(100 * preferred + 20 * preferred_matches, preferred))

\* The score of the requirements, given the matches among the required and
\* among the preferred entries (shared by education and certifications).
RequirementScore(jd_entries, required, required_matches, preferred, preferred_matches) ==
    IF jd_entries = <<>> THEN None
    ELSE IF required # <<>>
    THEN IF required_matches # <<>>
         THEN IF preferred # <<>>
              THEN WithBonus(Len(preferred_matches), Len(preferred))
              ELSE Ratio(100, 1)
         ELSE Ratio(0, 1)
    ELSE IF preferred # <<>>
    THEN Clamp(Percent(Len(preferred_matches), Len(preferred)))
    ELSE None

\* Variant: a JD without education entries scores 100.
_calculate_education_score_Vacuous(resume_education, jd_education) ==
    IF jd_education = <<>> THEN Ratio(100, 1)
    ELSE RequirementScore(
             jd_education,
             SelectSeq(jd_education, IsRequired),
             _match_education(resume_education, SelectSeq(jd_education, IsRequired)),
             SelectSeq(jd_education, IsPreferred),
             _match_education(resume_education, SelectSeq(jd_education, IsPreferred)))

_calculate_education_score(resume_education, jd_education) ==
    RequirementScore(
        jd_education,
        SelectSeq(jd_education, IsRequired),
        _match_education(resume_education, SelectSeq(jd_education, IsRequired)),
        SelectSeq(jd_education, IsPreferred),
        _match_education(resume_education, SelectSeq(jd_education, IsPreferred)))

_normalize_cert_name(name) == Strip(Lower(name))

_normalize_issuer(issuer) == Strip(Lower(issuer))

\* The test of the inner loop of _match_certifications on one pair.
CertificationMatches(jd_cert, resume_cert) ==
    /\ \/ Contains(_normalize_cert_name(resume_cert.name), _normalize_cert_name(jd_cert.name))
       \/ Contains(_normalize_cert_name(jd_cert.name), _normalize_cert_name(resume_cert.name))
    /\ Truthy(jd_cert.issuer) =>
           /\ Truthy(resume_cert.issuer)
           /\ _normalize_issuer(jd_cert.issuer.some) = _normalize_issuer(resume_cert.issuer.some)

_match_certifications(resume_certifications, jd_certifications) ==
    LET Matched(jd_cert) ==
            \E i \in 1..Len(resume_certifications) :
                CertificationMatches(jd_cert, resume_certifications[i])
    IN  SelectSeq(jd_certifications, Matched)

_calculate_certification_score(resume_certifications, jd_certifications) ==
    RequirementScore(
        jd_certifications,
        SelectSeq(jd_certifications, IsRequired),
        _match_certifications(resume_certifications,
                              SelectSeq(jd_certifications, IsRequired)),
        SelectSeq(jd_certifications, IsPreferred),
        _match_certifications(resume_certifications,
                              SelectSeq(jd_certifications, IsPreferred)))

\* technical_score * technical_weight + soft_skills_score * soft_skills_weight
WeightedSum(ts, tw, ss, sw) ==
    Ratio(ts.n * tw.n * ss.d * sw.d + ss.n * sw.n * ts.d * tw.d,
          ts.d * tw.d * ss.d * sw.d)

\* The weights after "Normalize weights": divided by their sum when it is > 0.
NormalizedWeight(weight, total_weight) ==
    IF total_weight > 0 THEN Ratio(weight, total_weight) ELSE Ratio(weight, 100)

\* Variant: the weights are stored as given.
NormalizedWeights_AsGiven(technical_weight, soft_skills_weight) ==
    [technical |-> Ratio(technical_weight, 100),
     soft_skills |-> Ratio(soft_skills_weight, 100)]

NormalizedWeights(technical_weight, soft_skills_weight) ==
    [technical |-> NormalizedWeight(technical_weight,
                                    technical_weight + soft_skills_weight),
     soft_skills |-> NormalizedWeight(soft_skills_weight,
                                      technical_weight + soft_skills_weight)]

\* if technical_weight is None: technical_weight = DEFAULT_TECHNICAL_WEIGHT
OrDefault(weight, default) == IF weight = None THEN default ELSE weight.some

\* round(score, 2) if score is not None else None
RoundOptional(score) == IF score = None THEN None ELSE Some(Round2(score))

\* Field(..., ge=0.0, le=100.0) of FitScoreBreakdown, on hundredths.
InRange(hundredths) == hundredths >= 0 /\ hundredths <= 10000

\* FitScoreBreakdown(**fields): the model is validated when it is built.
FitScoreBreakdown(fields) ==
    IF /\ InRange(fields.overall_score)
       /\ InRange(fields.technical_score)
       /\ InRange(fields.soft_skills_score)
       /\ fields.education_score # None => InRange(fields.education_score.some)
       /\ fields.certification_score # None => InRange(fields.certification_score.some)
    THEN fields
    ELSE ValidationError

\* calculate_fit_score once the two skill scores and the weights are known.
ScoreGiven(gap, resume, jd, technical_score, soft_skills_score, stored) ==
    IF IsError(technical_score) THEN technical_score
    ELSE IF IsError(soft_skills_score) THEN soft_skills_score
    ELSE FitScoreBreakdown(
             [overall_score |->
                  Round2(WeightedSum(technical_score, stored.technical,
                                     soft_skills_score, stored.soft_skills)),
              technical_score |-> Round2(technical_score),
              soft_skills_score |-> Round2(soft_skills_score),
              education_score |->
                  RoundOptional(_calculate_education_score(resume.education,
                                                           jd.education)),
              certification_score |->
                  RoundOptional(_calculate_certification_score(resume.certifications,
                                                               jd.certifications)),
              matched_count |-> Len(gap.matched_skills),
              missing_count |-> Len(gap.missing_skills),
              total_jd_skills |-> Len(jd.skills),
              technical_weight |-> stored.technical,
              soft_skills_weight |-> stored.soft_skills])

\* resume and jd are SkillExtractionResult values; include_education and
\* include_certifications are True, as the endpoint passes them.
calculate_fit_score(gap, resume, jd, technical_weight, soft_skills_weight) ==
    ScoreGiven(gap, resume, jd,
               _calculate_technical_score(gap, jd.skills),
               _calculate_soft_skills_score(gap, jd.skills),
               NormalizedWeights(OrDefault(technical_weight, DEFAULT_TECHNICAL_WEIGHT),
                                 OrDefault(soft_skills_weight, DEFAULT_SOFT_SKILLS_WEIGHT)))

(***************************************************************************)
(* Inputs of the model.                                                    *)
(***************************************************************************)
SeqsUpTo(S, n) == UNION {[1..k -> S] : k \in 0..n}

\* request.weights: no weights, or a dict with the keys the caller supplies
\* (values in hundredths; the endpoint does not validate them).
WeightInputs ==
    {None,
     ("technical" :> 80) @@ ("soft_skills" :> 20),
     ("technical" :> 20) @@ ("soft_skills" :> 20),
     ("technical" :> 50),
     ("technical" :> 0) @@ ("soft_skills" :> 0),
     ("technical" :> -50) @@ ("soft_skills" :> 150)}

\* request.weights.get(key, None), after "if request.weights:"
WeightOf(dict, key) ==
    IF dict = None THEN None
    ELSE IF key \in DOMAIN dict THEN Some(dict[key])
    ELSE None

SkillExtractionResult(skills, edu, certs) ==
    [skills |-> skills, education |-> edu, certifications |-> certs]

\* The requests of the education and certification checks.
MaxJdEducation == 2

JdEducationPool ==
    {Education(Some("Bachelor's"), None, TRUE, FALSE),
     Education(Some("Master"), Some("Computer Science"), TRUE, FALSE),
     Education(None, Some("Physics"), TRUE, FALSE),
     Education(Some("PhD"), None, FALSE, TRUE),
     Education(Some("MS"), Some("computer science"), FALSE, TRUE)}

ResumeEducationInputs ==
    {<<>>,
     <<Education(Some("BS"), Some("Physics"), TRUE, FALSE)>>,
     <<Education(Some(" m.sc "), Some(" Computer Science"), TRUE, FALSE)>>,
     <<Education(Some("Doctorate"), None, TRUE, FALSE),
       Education(Some("MA"), Some("Mathematics"), TRUE, FALSE)>>}

JdCertificationInputs ==
    {<<>>,
     <<Certification("AWS Certified", Some("Amazon"), TRUE, FALSE)>>,
     <<Certification("PMP", None, FALSE, TRUE)>>}

ResumeCertificationInputs ==
    {<<>>,
     <<Certification("aws certified solutions architect", Some("amazon "), FALSE, FALSE)>>,
     <<Certification("pmp", None, FALSE, FALSE)>>}

FitScoreSkillInputs ==
    {<< <<>>, <<>> >>,
     << <<Skill("Python", "programming_languages")>>,
        <<Skill("Python", "programming_languages"), Skill("Leadership", "leadership")>> >>,
     << <<Skill("python", "other")>>, <<Skill("Python", "programming_languages")>> >>}

(***************************************************************************)
(* The /analyze-gap request: analyze_gap, then calculate_fit_score.        *)
(***************************************************************************)
VARIABLES
    levenshtein_installed,   \* whether "from Levenshtein import ratio" succeeded
    resume_skills,           \* request.resume_skills.skills
    jd_skills,               \* request.jd_skills.skills
    pc,                      \* position in the request handler
    jd_pos,                  \* find_matches: position of the JD loop (1-based)
    matches,                 \* find_matches: matches
    matched_resume_indices,  \* find_matches: matched_resume_indices
    match_origin,            \* history: <<resume index, JD position>> of each match
    matched_skills,          \* analyze_gap: matched_skills
    missing_skills,          \* analyze_gap: missing_skills
    extra_skills,            \* analyze_gap: extra_skills
    gap_analysis,            \* the GapAnalysis returned by analyze_gap
    fit_score,               \* the FitScoreBreakdown returned by calculate_fit_score
    education,               \* request.resume_skills.education, request.jd_skills.education
    certifications,          \* the certifications lists of the request, likewise
    weights,                 \* request.weights, as read for calculate_fit_score
    call_skill1,                  \* match_skills: first argument
    call_skill2,                  \* match_skills: second argument
    call_match,                   \* match_skills: the value returned
    calls,                   \* concurrent analyze_gap calls: the locals of each
    client,                  \* llm_service.client
    text,                    \* extract_from_text: text
    results,                 \* _extract_parallel: what each of the five tasks gave
    extraction,              \* what extract_from_text / extract_from_file_id returned
    _files,                  \* file_storage._files
    clock,                   \* datetime.now(), in hours since the upload
    file_data,               \* extract_from_file_id / parse_file: file_data
    parse_result,            \* what parse_file did: (success, error), text stored
    attempt,                 \* call_api: attempt
    provider_calls,          \* history: outcome of each chat.completions.create
    response                 \* what call_api returned or raised

vars == <<levenshtein_installed, resume_skills, jd_skills, pc, jd_pos, matches,
          matched_resume_indices, match_origin, matched_skills, missing_skills,
          extra_skills, gap_analysis, fit_score, education, certifications, weights,
          call_skill1, call_skill2, call_match, calls, client, text, results,
          extraction, _files, clock, file_data, parse_result, attempt,
          provider_calls, response>>

\* The state of the extraction services, which the gap analysis does not touch.
services == <<client, text, results, extraction, _files, clock, file_data,
              parse_result, attempt, provider_calls, response>>

inputs == <<levenshtein_installed, resume_skills, jd_skills, education, certifications,
            calls, services>>
call == <<call_skill1, call_skill2, call_match>>
request == <<resume_skills, jd_skills, jd_pos, matches, matched_resume_indices,
             match_origin, matched_skills, missing_skills, extra_skills,
             gap_analysis, fit_score, education, certifications, weights>>

\* The state of a request before analyze_gap is called.
\* No extraction, no stored file and no call_api in progress.
ServicesIdle ==
    /\ client = None
    /\ text = None
    /\ results = <<>>
    /\ extraction = None
    /\ _files = <<>>
    /\ clock = 0
    /\ file_data = None
    /\ parse_result = None
    /\ attempt = 0
    /\ provider_calls = <<>>
    /\ response = None

Start ==
    /\ pc = "find_matches"
    /\ ServicesIdle
    /\ jd_pos = 1
    /\ matches = <<>>
    /\ matched_resume_indices = {}
    /\ match_origin = <<>>
    /\ matched_skills = <<>>
    /\ missing_skills = <<>>
    /\ extra_skills = <<>>
    /\ gap_analysis = None
    /\ fit_score = None
    /\ weights = None
    /\ call_skill1 = None
    /\ call_skill2 = None
    /\ call_match = None
    /\ calls = <<>>

Init ==
    /\ levenshtein_installed \in BOOLEAN
    /\ resume_skills \in SeqsUpTo(SkillPool, MaxResume)
    /\ jd_skills \in SeqsUpTo(SkillPool, MaxJd)
    /\ education = [resume |-> <<>>, jd |-> <<>>]
    /\ certifications = [resume |-> <<>>, jd |-> <<>>]
    /\ Start

\* The history of the matches: the resume index and JD position of the new one.
OriginAfter(origin, pos, best) ==
    IF best.best_match # None
    THEN Append(origin, <<best.best_match_index, pos>>)
    ELSE origin

FindMatchesIteration ==
    /\ pc = "find_matches"
    /\ jd_pos <= Len(jd_skills)
    /\ matches' =
           JdIteration(levenshtein_installed, resume_skills, jd_skills[jd_pos],
                       [matches |-> matches,
                        matched_resume_indices |-> matched_resume_indices]).matches
    /\ matched_resume_indices' =
           JdIteration(levenshtein_installed, resume_skills, jd_skills[jd_pos],
                       [matches |-> matches,
                        matched_resume_indices |-> matched_resume_indices]
                      ).matched_resume_indices
    /\ match_origin' =
           OriginAfter(match_origin, jd_pos,
                       ScanResume(levenshtein_installed, resume_skills, jd_skills[jd_pos],
                                  matched_resume_indices, 0, NoBest))
    /\ jd_pos' = jd_pos + 1
    /\ UNCHANGED <<inputs, call, pc, matched_skills, missing_skills, extra_skills,
                   gap_analysis, fit_score, weights>>

FindMatchesReturn ==
    /\ pc = "find_matches"
    /\ jd_pos > Len(jd_skills)
    /\ matched_skills' = matches
    /\ pc' = "find_missing"
    /\ UNCHANGED <<inputs, call, jd_pos, matches, matched_resume_indices, match_origin,
                   missing_skills, extra_skills, gap_analysis, fit_score, weights>>

FindMissingSkills ==
    /\ pc = "find_missing"
    /\ missing_skills' = find_missing_skills(levenshtein_installed, resume_skills, jd_skills)
    /\ pc' = "find_extra"
    /\ UNCHANGED <<inputs, call, jd_pos, matches, matched_resume_indices, match_origin,
                   matched_skills, extra_skills, gap_analysis, fit_score, weights>>

FindExtraSkills ==
    /\ pc = "find_extra"
    /\ extra_skills' = find_extra_skills(levenshtein_installed, resume_skills, jd_skills)
    /\ pc' = "breakdown"
    /\ UNCHANGED <<inputs, call, jd_pos, matches, matched_resume_indices, match_origin,
                   matched_skills, missing_skills, gap_analysis, fit_score, weights>>

AnalyzeGapReturn ==
    /\ pc = "breakdown"
    /\ gap_analysis' = GapAnalysis(matched_skills, missing_skills, extra_skills)
    /\ pc' = "fit_score"
    /\ UNCHANGED <<inputs, call, jd_pos, matches, matched_resume_indices, match_origin,
                   matched_skills, missing_skills, extra_skills, fit_score, weights>>

CalculateFitScore ==
    /\ pc = "fit_score"
    /\ \E dict \in WeightInputs :
           /\ weights' = dict
           /\ fit_score' =
                  calculate_fit_score(
                      gap_analysis,
                      SkillExtractionResult(resume_skills, education.resume,
                                            certifications.resume),
                      SkillExtractionResult(jd_skills, education.jd, certifications.jd),
                      WeightOf(dict, "technical"),
                      WeightOf(dict, "soft_skills"))
    /\ pc' = "done"
    /\ UNCHANGED <<inputs, call, jd_pos, matches, matched_resume_indices, match_origin,
                   matched_skills, missing_skills, extra_skills, gap_analysis>>

Next ==
    \/ FindMatchesIteration
    \/ FindMatchesReturn
    \/ FindMissingSkills
    \/ FindExtraSkills
    \/ AnalyzeGapReturn
    \/ CalculateFitScore

Spec == Init /\ [][Next]_vars

(***************************************************************************)
(* The same request, on inputs with education and certification entries.   *)
(***************************************************************************)
InitFitScore ==
    /\ levenshtein_installed \in BOOLEAN
    /\ \E lists \in FitScoreSkillInputs :
           /\ resume_skills = lists[1]
           /\ jd_skills = lists[2]
    /\ \E resume_list \in ResumeEducationInputs,
          jd_list \in SeqsUpTo(JdEducationPool, MaxJdEducation) :
           education = [resume |-> resume_list, jd |-> jd_list]
    /\ \E resume_list \in ResumeCertificationInputs,
          jd_list \in JdCertificationInputs :
           certifications = [resume |-> resume_list, jd |-> jd_list]
    /\ Start

SpecFitScore == InitFitScore /\ [][Next]_vars

(***************************************************************************)
(* A single call of match_skills on a pair of skills.                      *)
(***************************************************************************)
TableNames == UNION {{key} \cup SKILL_SYNONYMS[key] : key \in DOMAIN SKILL_SYNONYMS}

OtherNames ==
    {"Python", "PYTHON", "Pythons", "Pyhton", "JavaScript", "JS", "Java",
     "React.js", "PostgresSQL", "Leadership Skills", "expert python", ""}

MatchNames == TableNames \cup OtherNames

Pending == [pending |-> TRUE]

InitMatch ==
    /\ levenshtein_installed \in BOOLEAN
    /\ call_skill1 \in {Skill(name, "programming_languages") : name \in MatchNames}
    /\ call_skill2 \in {Skill(name, category) :
                       name \in MatchNames,
                       category \in {"programming_languages", "leadership"}}
    /\ call_match = Pending
    /\ pc = "match_skills"
    /\ resume_skills = <<>>
    /\ jd_skills = <<>>
    /\ jd_pos = 1
    /\ matches = <<>>
    /\ matched_resume_indices = {}
    /\ match_origin = <<>>
    /\ matched_skills = <<>>
    /\ missing_skills = <<>>
    /\ extra_skills = <<>>
    /\ gap_analysis = None
    /\ fit_score = None
    /\ education = [resume |-> <<>>, jd |-> <<>>]
    /\ certifications = [resume |-> <<>>, jd |-> <<>>]
    /\ weights = None
    /\ calls = <<>>
    /\ ServicesIdle

MatchSkills ==
    /\ pc = "match_skills"
    /\ call_match' = match_skills(levenshtein_installed, call_skill1, call_skill2)
    /\ pc' = "done"
    /\ UNCHANGED <<levenshtein_installed, call_skill1, call_skill2, request, calls,
                   services>>

NextMatch == MatchSkills

SpecMatch == InitMatch /\ [][NextMatch]_vars

TypeOK ==
    /\ pc \in {"find_matches", "find_missing", "find_extra", "breakdown", "fit_score",
               "match_skills", "done"}
    /\ jd_pos \in 1..(Len(jd_skills) + 1)
    /\ matched_resume_indices \subseteq 0..(Len(resume_skills) - 1)

(***************************************************************************)
(* Concurrent requests: MaxCalls calls of analyze_gap run interleaved, a   *)
(* step at a time.  Each call has its own arguments and locals; the calls  *)
(* share only the module (the tables and levenshtein_ratio).               *)
(***************************************************************************)
MaxCalls == 2

ConcurrentInputs ==
    {<< <<Skill("Python", "programming_languages")>>,
        <<Skill("Python", "programming_languages"), Skill("py", "programming_languages")>> >>,
     << <<Skill("Pyhton", "programming_languages"), Skill("Pythons", "programming_languages")>>,
        <<Skill("Python", "programming_languages")>> >>,
     << <<Skill("python", "other"), Skill("Leadership", "leadership")>>,
        <<Skill("Pythons", "programming_languages")>> >>}

\* The frame of a call of analyze_gap on its arguments.
NewCall(given) ==
    [resume_skills |-> given[1],
     jd_skills |-> given[2],
     pc |-> "find_matches",
     jd_pos |-> 1,
     matches |-> <<>>,
     matched_resume_indices |-> {},
     matched_skills |-> <<>>,
     missing_skills |-> <<>>,
     extra_skills |-> <<>>,
     result |-> None,
     overlapped |-> FALSE]

\* Variant: matched_resume_indices is one set shared by all the calls.
VisibleIndices_Shared(all_calls, c) ==
    UNION {all_calls[d].matched_resume_indices : d \in DOMAIN all_calls}

\* matched_resume_indices is a local of find_matches.
VisibleIndices(all_calls, c) == all_calls[c].matched_resume_indices

\* Another call has started and not yet returned (history).
InProgress(this) ==
    this.pc # "done" /\ (this.pc # "find_matches" \/ this.jd_pos > 1)

Overlaps(c) ==
    calls[c].overlapped \/ \E d \in DOMAIN calls : d # c /\ InProgress(calls[d])

InitConcurrent ==
    /\ levenshtein_installed \in BOOLEAN
    /\ calls \in [1..MaxCalls -> {NewCall(given) : given \in ConcurrentInputs}]
    /\ resume_skills = <<>>
    /\ jd_skills = <<>>
    /\ education = [resume |-> <<>>, jd |-> <<>>]
    /\ certifications = [resume |-> <<>>, jd |-> <<>>]
    /\ pc = "concurrent"
    /\ jd_pos = 1
    /\ matches = <<>>
    /\ matched_resume_indices = {}
    /\ match_origin = <<>>
    /\ matched_skills = <<>>
    /\ missing_skills = <<>>
    /\ extra_skills = <<>>
    /\ gap_analysis = None
    /\ fit_score = None
    /\ weights = None
    /\ call_skill1 = None
    /\ call_skill2 = None
    /\ call_match = None
    /\ ServicesIdle

\* The loop state of call c after one more iteration of the JD loop.
CallIteration(c) ==
    JdIteration(levenshtein_installed, calls[c].resume_skills,
                calls[c].jd_skills[calls[c].jd_pos],
                [matches |-> calls[c].matches,
                 matched_resume_indices |-> VisibleIndices(calls, c)])

CallFindMatchesIteration(c) ==
    /\ calls[c].pc = "find_matches"
    /\ calls[c].jd_pos <= Len(calls[c].jd_skills)
    /\ calls' = [calls EXCEPT
                    ![c].matches = CallIteration(c).matches,
                    ![c].matched_resume_indices = CallIteration(c).matched_resume_indices,
                    ![c].jd_pos = @ + 1,
                    ![c].overlapped = Overlaps(c)]
    /\ UNCHANGED <<levenshtein_installed, pc, call, request, services>>

CallFindMatchesReturn(c) ==
    /\ calls[c].pc = "find_matches"
    /\ calls[c].jd_pos > Len(calls[c].jd_skills)
    /\ calls' = [calls EXCEPT
                    ![c].matched_skills = calls[c].matches,
                    ![c].pc = "find_missing",
                    ![c].overlapped = Overlaps(c)]
    /\ UNCHANGED <<levenshtein_installed, pc, call, request, services>>

CallFindMissingSkills(c) ==
    /\ calls[c].pc = "find_missing"
    /\ calls' = [calls EXCEPT
                    ![c].missing_skills =
                        find_missing_skills(levenshtein_installed, calls[c].resume_skills,
                                            calls[c].jd_skills),
                    ![c].pc = "find_extra",
                    ![c].overlapped = Overlaps(c)]
    /\ UNCHANGED <<levenshtein_installed, pc, call, request, services>>

CallFindExtraSkills(c) ==
    /\ calls[c].pc = "find_extra"
    /\ calls' = [calls EXCEPT
                    ![c].extra_skills =
                        find_extra_skills(levenshtein_installed, calls[c].resume_skills,
                                          calls[c].jd_skills),
                    ![c].pc = "breakdown",
                    ![c].overlapped = Overlaps(c)]
    /\ UNCHANGED <<levenshtein_installed, pc, call, request, services>>

CallAnalyzeGapReturn(c) ==
    /\ calls[c].pc = "breakdown"
    /\ calls' = [calls EXCEPT
                    ![c].result = GapAnalysis(calls[c].matched_skills,
                                              calls[c].missing_skills,
                                              calls[c].extra_skills),
                    ![c].pc = "done",
                    ![c].overlapped = Overlaps(c)]
    /\ UNCHANGED <<levenshtein_installed, pc, call, request, services>>

NextConcurrent ==
    \E c \in DOMAIN calls :
        \/ CallFindMatchesIteration(c)
        \/ CallFindMatchesReturn(c)
        \/ CallFindMissingSkills(c)
        \/ CallFindExtraSkills(c)
        \/ CallAnalyzeGapReturn(c)

SpecConcurrent == InitConcurrent /\ [][NextConcurrent]_vars

(***************************************************************************)
(* Properties.                                                             *)
(***************************************************************************)
Analysed == gap_analysis # None
Scored == fit_score # None /\ ~IsError(fit_score)

\* Resume index and JD position of the i-th match.
ResumeIndexOf(i) == match_origin[i][1]
JdPosOf(i) == match_origin[i][2]
MatchesOfJd(p) == {i \in 1..Len(match_origin) : JdPosOf(i) = p}
MatchesOfResume(idx) == {i \in 1..Len(match_origin) : ResumeIndexOf(i) = idx}

DistinctNames(skills) ==
    \A a, b \in 1..Len(skills) :
        a # b => Normalized(skills[a]) # Normalized(skills[b])

\* C1: after analyze_gap on a JD list of distinct skills, every JD skill is
\* the partner of exactly one matched entry or is listed in missing_skills,
\* so len(matched_skills) + len(missing_skills) is the number of JD skills
\* (and matched_count + missing_count = total_jd_skills in the breakdown).
C1_JdPartition ==
    (Analysed /\ DistinctNames(jd_skills)) =>
        /\ \A p \in 1..Len(jd_skills) :
               \/ /\ Cardinality(MatchesOfJd(p)) = 1
                  /\ jd_skills[p] \notin SeqRange(gap_analysis.missing_skills)
               \/ /\ MatchesOfJd(p) = {}
                  /\ jd_skills[p] \in SeqRange(gap_analysis.missing_skills)
        /\ Len(gap_analysis.matched_skills) + Len(gap_analysis.missing_skills)
               = Len(jd_skills)
        /\ Scored =>
               fit_score.matched_count + fit_score.missing_count
                   = fit_score.total_jd_skills

\* C2: after analyze_gap on a resume list of distinct skills, every resume
\* skill is the skill of exactly one matched entry or is listed in
\* extra_skills, so len(matched_skills) + len(extra_skills) is the number of
\* resume skills.
C2_ResumePartition ==
    (Analysed /\ DistinctNames(resume_skills)) =>
        /\ \A idx \in 0..(Len(resume_skills) - 1) :
               \/ /\ Cardinality(MatchesOfResume(idx)) = 1
                  /\ resume_skills[idx + 1] \notin SeqRange(gap_analysis.extra_skills)
               \/ /\ MatchesOfResume(idx) = {}
                  /\ resume_skills[idx + 1] \in SeqRange(gap_analysis.extra_skills)
        /\ Len(gap_analysis.matched_skills) + Len(gap_analysis.extra_skills)
               = Len(resume_skills)

\* C3: the cells of the gap analysis are disjoint: a JD skill that was given
\* a match is not in missing_skills and a resume skill consumed by a match is
\* not in extra_skills.
C3_CellsDisjoint ==
    pc = "fit_score" =>
        \A i \in 1..Len(match_origin) :
            /\ jd_skills[JdPosOf(i)] \notin SeqRange(gap_analysis.missing_skills)
            /\ resume_skills[ResumeIndexOf(i) + 1]
                   \notin SeqRange(gap_analysis.extra_skills)

C3_Witness ==
    /\ Analysed
    /\ gap_analysis.matched_skills # <<>>
    /\ gap_analysis.missing_skills # <<>>
    /\ gap_analysis.extra_skills # <<>>

\* C4: find_matches is one-to-one at every step of the JD loop: each resume
\* index is the source of at most one match, each JD skill yields at most one
\* match, and the matches never outnumber either list.
C4_OneToOne ==
    pc \in {"find_matches", "find_missing"} =>
        /\ Len(matches) = Len(match_origin)
        /\ matched_resume_indices = {ResumeIndexOf(i) : i \in 1..Len(match_origin)}
        /\ Cardinality(matched_resume_indices) = Len(matches)
        /\ \A a, b \in 1..Len(match_origin) :
               a # b => /\ ResumeIndexOf(a) # ResumeIndexOf(b)
                        /\ JdPosOf(a) # JdPosOf(b)
        /\ Len(matches) <= Min(Len(resume_skills), Len(jd_skills))

\* A JD skill went unmatched although a consumed resume skill matches it.
C4_Witness ==
    /\ pc = "find_matches"
    /\ jd_pos > Len(jd_skills)
    /\ \E p \in 1..Len(jd_skills) :
           /\ MatchesOfJd(p) = {}
           /\ \E idx \in matched_resume_indices :
                  Match(levenshtein_installed, resume_skills[idx + 1], jd_skills[p]) # None

\* The resume indices consumed before the JD skill at position p is processed.
ConsumedBefore(p) ==
    {ResumeIndexOf(i) : i \in {k \in 1..Len(match_origin) : JdPosOf(k) < p}}

\* The unconsumed resume indices that match the JD skill at position p.
Candidates(p) ==
    {idx \in 0..(Len(resume_skills) - 1) :
        /\ idx \notin ConsumedBefore(p)
        /\ Match(levenshtein_installed, resume_skills[idx + 1], jd_skills[p]) # None}

ConfidenceOf(idx, p) ==
    Match(levenshtein_installed, resume_skills[idx + 1], jd_skills[p]).confidence

BestCandidates(p) ==
    LET candidates == Candidates(p) IN
    {idx \in candidates :
        \A o \in candidates : Leq(ConfidenceOf(o, p), ConfidenceOf(idx, p))}

\* C5: each JD skill, in input order, selects among the unconsumed resume
\* skills one of maximal confidence, the smallest index among ties; a JD
\* skill that no unconsumed resume skill matches gets no match.  (Stated on
\* the states of the JD loop, its last one included; matches is not written
\* afterwards.)
C5_GreedyBest ==
    pc = "find_matches" =>
        \A p \in 1..(jd_pos - 1) :
            IF Candidates(p) = {}
            THEN MatchesOfJd(p) = {}
            ELSE \E i \in MatchesOfJd(p) :
                     /\ ResumeIndexOf(i) = SetMin(BestCandidates(p))
                     /\ matches[i] = Match(levenshtein_installed,
                                           resume_skills[ResumeIndexOf(i) + 1],
                                           jd_skills[p])

\* Two unconsumed resume skills tied on the maximal confidence.
C5_Witness ==
    /\ pc = "find_matches"
    /\ \E p \in 1..(jd_pos - 1) :
           /\ Cardinality(BestCandidates(p)) >= 2
           /\ \E i \in MatchesOfJd(p) : ResumeIndexOf(i) = SetMin(BestCandidates(p))

\* C6: skills whose normalized names are equal, whatever their categories,
\* match as 'exact' with confidence 1.0.
C6_ExactMatch ==
    (/\ pc = "done"
     /\ normalize_skill_name(call_skill1.name) = normalize_skill_name(call_skill2.name)) =>
        /\ call_match # None
        /\ call_match.match_type = "exact"
        /\ Same(call_match.confidence, Ratio(1, 1))

\* Names that differ only in letter case, with different categories.
C6_Witness ==
    /\ pc = "done"
    /\ call_skill1.name # call_skill2.name
    /\ Lower(call_skill1.name) = Lower(call_skill2.name)
    /\ call_skill1.category # call_skill2.category
    /\ call_match # None
    /\ call_match.match_type = "exact"

SameEntry(name1, name2) ==
    \E key \in DOMAIN SKILL_SYNONYMS :
        /\ Lower(name1) \in {key} \cup SKILL_SYNONYMS[key]
        /\ Lower(name2) \in {key} \cup SKILL_SYNONYMS[key]

\* C7: skills whose names belong to the same entry of the synonym table and
\* whose normalized names differ match as 'synonym' with confidence 0.95,
\* whatever their similarity and categories.
C7_SynonymMatch ==
    (/\ pc = "done"
     /\ SameEntry(call_skill1.name, call_skill2.name)
     /\ normalize_skill_name(call_skill1.name) # normalize_skill_name(call_skill2.name)) =>
        /\ call_match # None
        /\ call_match.match_type = "synonym"
        /\ Same(call_match.confidence, Ratio(95, 100))

\* Same entry, different categories, and names too dissimilar for any
\* similarity tier.
C7_Witness ==
    /\ pc = "done"
    /\ SameEntry(call_skill1.name, call_skill2.name)
    /\ normalize_skill_name(call_skill1.name) # normalize_skill_name(call_skill2.name)
    /\ call_skill1.category # call_skill2.category
    /\ LET similarity == fuzzy_match(levenshtein_installed, call_skill1, call_skill2).similarity
       IN  similarity.n * 100 < CATEGORY_THRESHOLD * similarity.d
    /\ call_match # None
    /\ call_match.match_type = "synonym"

AllCategories ==
    TECHNICAL_CATEGORIES \cup SOFT_SKILL_CATEGORIES \cup {s.category : s \in SkillPool}

MatchedResumeIn(categories) ==
    Cardinality({i \in 1..Len(match_origin) :
                    resume_skills[ResumeIndexOf(i) + 1].category \in categories})

JdIn(categories) ==
    Cardinality({p \in 1..Len(jd_skills) : jd_skills[p].category \in categories})

ExpectedScore(categories) ==
    LET required == JdIn(categories)
        matched == MatchedResumeIn(categories)
    IN  IF required = 0 THEN 10000
        ELSE IF matched >= required THEN 10000
        ELSE Round2(Ratio(100 * matched, required))

\* C8: every match carries the resume skill at the consumed index, so the
\* category counted for it in category_breakdown and in the technical and
\* soft scores is the resume skill's category.
C8_ResumeSide ==
    /\ pc = "find_matches" =>
           \A i \in 1..Len(matches) :
               /\ i <= Len(match_origin)
               /\ matches[i].skill = resume_skills[ResumeIndexOf(i) + 1]
    /\ pc = "fit_score" =>
           \A c \in AllCategories :
               (IF c \in DOMAIN gap_analysis.category_breakdown
                THEN gap_analysis.category_breakdown[c].matched ELSE 0)
                   = MatchedResumeIn({c})
    /\ Scored =>
           /\ fit_score.technical_score = ExpectedScore(TECHNICAL_CATEGORIES)
           /\ fit_score.soft_skills_score = ExpectedScore(SOFT_SKILL_CATEGORIES)

\* A technical resume skill matched to a non-technical JD skill.
C8_Witness ==
    /\ pc = "done"
    /\ Scored
    /\ \E i \in 1..Len(match_origin) :
           /\ resume_skills[ResumeIndexOf(i) + 1].category \in TECHNICAL_CATEGORIES
           /\ jd_skills[JdPosOf(i)].category \notin TECHNICAL_CATEGORIES
           /\ gap_analysis.matched_skills[i].skill.category \in TECHNICAL_CATEGORIES

\* C9: analyze_gap yields empty outputs for empty inputs: nothing at all for
\* two empty lists, the whole JD list as missing for an empty resume, the
\* whole resume list as extra for an empty JD.
C9_EmptyInputs ==
    /\ pc \in {"fit_score", "done"} => Analysed
    /\ pc = "fit_score" =>
        /\ (resume_skills = <<>> /\ jd_skills = <<>>) =>
               /\ gap_analysis.matched_skills = <<>>
               /\ gap_analysis.missing_skills = <<>>
               /\ gap_analysis.extra_skills = <<>>
               /\ DOMAIN gap_analysis.category_breakdown = {}
        /\ resume_skills = <<>> =>
               /\ gap_analysis.matched_skills = <<>>
               /\ gap_analysis.extra_skills = <<>>
               /\ gap_analysis.missing_skills = jd_skills
        /\ jd_skills = <<>> =>
               /\ gap_analysis.matched_skills = <<>>
               /\ gap_analysis.missing_skills = <<>>
               /\ gap_analysis.extra_skills = resume_skills

C9_Witness ==
    /\ Analysed
    /\ resume_skills = <<>>
    /\ Len(jd_skills) = MaxJd
    /\ gap_analysis.missing_skills = jd_skills

\* C10: with an empty JD skill list calculate_fit_score returns
\* technical_score 100.0 and soft_skills_score 100.0 for every resume, with
\* matched_count, missing_count and total_jd_skills all 0.
C10_EmptyJd ==
    (pc = "done" /\ jd_skills = <<>>) =>
        /\ Scored
        /\ fit_score.technical_score = 10000
        /\ fit_score.soft_skills_score = 10000
        /\ fit_score.matched_count = 0
        /\ fit_score.missing_count = 0
        /\ fit_score.total_jd_skills = 0

C10_Witness ==
    /\ pc = "done"
    /\ jd_skills = <<>>
    /\ Len(resume_skills) = MaxResume
    /\ Scored
    /\ fit_score.technical_score = 10000

\* The weight calculate_fit_score works with before normalizing: the one the
\* request supplies, else the default.
SuppliedOrDefault(key, default) == OrDefault(WeightOf(weights, key), default)

UnitInterval(w) == Leq(Ratio(0, 1), w) /\ Leq(w, Ratio(1, 1))

\* C11: whatever weights the request supplies (none, one or both, any values),
\* the technical_weight and soft_skills_weight stored in the returned
\* breakdown are each in [0,1] and sum to 1.0, each being the
\* supplied-or-default weight divided by the sum of the two.
C11_StoredWeights ==
    (pc = "done" /\ Scored) =>
        /\ UnitInterval(fit_score.technical_weight)
        /\ UnitInterval(fit_score.soft_skills_weight)
        /\ fit_score.technical_weight.n * fit_score.soft_skills_weight.d
             + fit_score.soft_skills_weight.n * fit_score.technical_weight.d
           = fit_score.technical_weight.d * fit_score.soft_skills_weight.d
        /\ Same(fit_score.technical_weight,
                Ratio(SuppliedOrDefault("technical", DEFAULT_TECHNICAL_WEIGHT),
                      SuppliedOrDefault("technical", DEFAULT_TECHNICAL_WEIGHT)
                        + SuppliedOrDefault("soft_skills", DEFAULT_SOFT_SKILLS_WEIGHT)))
        /\ Same(fit_score.soft_skills_weight,
                Ratio(SuppliedOrDefault("soft_skills", DEFAULT_SOFT_SKILLS_WEIGHT),
                      SuppliedOrDefault("technical", DEFAULT_TECHNICAL_WEIGHT)
                        + SuppliedOrDefault("soft_skills", DEFAULT_SOFT_SKILLS_WEIGHT)))

\* technical_score * technical_weight + soft_skills_score * soft_skills_weight
\* of the fields of a returned breakdown, in hundredths.
StoredWeightedSum(breakdown) ==
    WeightedSum(Ratio(breakdown.technical_score, 1), breakdown.technical_weight,
                Ratio(breakdown.soft_skills_score, 1), breakdown.soft_skills_weight)

\* C12: for every input, calculate_fit_score returns a breakdown whose
\* overall_score is technical_score * technical_weight + soft_skills_score *
\* soft_skills_weight with the stored weights (to the rounding of the two
\* decimals), and the unclamped sum lies in [0,100].
C12_OverallScore ==
    pc = "done" =>
        /\ Scored
        /\ Leq(Ratio(fit_score.overall_score - 1, 1), StoredWeightedSum(fit_score))
        /\ Leq(StoredWeightedSum(fit_score), Ratio(fit_score.overall_score + 1, 1))
        /\ InRange(fit_score.overall_score)

\* The number of entries of matched_skills whose skill is in the categories.
MatchedIn(categories) ==
    Cardinality({i \in 1..Len(gap_analysis.matched_skills) :
                    gap_analysis.matched_skills[i].skill.category \in categories})

\* 100.0 without JD skills of the categories, else min(100, 100 * M / T).
FormulaScore(categories) ==
    LET required == JdIn(categories)
        matched == MatchedIn(categories)
    IN  IF required = 0 THEN Ratio(100, 1)
        ELSE IF matched >= required THEN Ratio(100, 1)
        ELSE Ratio(100 * matched, required)

\* C13: technical_score is 100.0 when the JD has no technical skill, else
\* min(100, 100 * M / T) with T the JD skills in technical categories and M
\* the matched entries whose (resume-side) skill is technical;
\* soft_skills_score is the same with the soft-skill categories; both are
\* in [0,100].
C13_SkillScores ==
    /\ pc = "fit_score" =>
           /\ Same(_calculate_technical_score(gap_analysis, jd_skills),
                   FormulaScore(TECHNICAL_CATEGORIES))
           /\ Same(_calculate_soft_skills_score(gap_analysis, jd_skills),
                   FormulaScore(SOFT_SKILL_CATEGORIES))
    /\ (pc = "done" /\ Scored) =>
           /\ fit_score.technical_score = Round2(FormulaScore(TECHNICAL_CATEGORIES))
           /\ fit_score.soft_skills_score = Round2(FormulaScore(SOFT_SKILL_CATEGORIES))
           /\ InRange(fit_score.technical_score)
           /\ InRange(fit_score.soft_skills_score)

\* More technical matches than technical JD skills: the score is capped.
C13_Witness ==
    /\ pc = "done"
    /\ Scored
    /\ JdIn(TECHNICAL_CATEGORIES) > 0
    /\ MatchedIn(TECHNICAL_CATEGORIES) > JdIn(TECHNICAL_CATEGORIES)
    /\ fit_score.technical_score = 10000

\* C14: whenever every JD skill obtained a match (matched_count =
\* total_jd_skills and missing_count = 0), calculate_fit_score with the
\* default weights returns technical_score, soft_skills_score and
\* overall_score all 100.0.
C14_PerfectMatch ==
    (/\ pc = "done"
     /\ weights = None
     /\ Scored
     /\ fit_score.matched_count = fit_score.total_jd_skills
     /\ fit_score.missing_count = 0) =>
        /\ fit_score.technical_score = 10000
        /\ fit_score.soft_skills_score = 10000
        /\ fit_score.overall_score = 10000

\* C15: for every resume, a JD without education entries gives
\* education_score None and a JD without certification entries gives
\* certification_score None (neither 0 nor 100).
C15_NoRequirement ==
    (pc = "done" /\ Scored) =>
        /\ education.jd = <<>> => fit_score.education_score = None
        /\ certifications.jd = <<>> => fit_score.certification_score = None

\* A resume with education and certifications against a JD with neither.
C15_Witness ==
    /\ pc = "done"
    /\ Scored
    /\ education.jd = <<>>
    /\ education.resume # <<>>
    /\ certifications.jd = <<>>
    /\ certifications.resume # <<>>
    /\ fit_score.education_score = None
    /\ fit_score.certification_score = None

\* Some resume entry has the normalized degree of the JD entry, and its
\* normalized field when the JD entry names a field.
ResumeMeets(jd_edu) ==
    \E i \in 1..Len(education.resume) :
        /\ Truthy(jd_edu.degree)
        /\ Truthy(education.resume[i].degree)
        /\ _normalize_degree(jd_edu.degree.some)
               = _normalize_degree(education.resume[i].degree.some)
        /\ Truthy(jd_edu.field) =>
               /\ Truthy(education.resume[i].field)
               /\ _normalize_field(jd_edu.field.some)
                      = _normalize_field(education.resume[i].field.some)

RequiredPositions == {p \in 1..Len(education.jd) : education.jd[p].required}
PreferredPositions == {p \in 1..Len(education.jd) : education.jd[p].preferred}

\* C16: when the JD has a required education entry, education_score is 0.0
\* if the resume matches none of the required entries and exactly 100.0 if
\* it matches at least one, whatever number of preferred entries is matched.
C16_RequiredEducation ==
    (pc = "done" /\ Scored /\ RequiredPositions # {}) =>
        IF \E p \in RequiredPositions : ResumeMeets(education.jd[p])
        THEN fit_score.education_score = Some(10000)
        ELSE fit_score.education_score = Some(0)

\* A required entry is met while a preferred entry is not.
C16_Witness ==
    /\ pc = "done"
    /\ Scored
    /\ \E p \in RequiredPositions : ResumeMeets(education.jd[p])
    /\ \E p \in PreferredPositions : ~ResumeMeets(education.jd[p])
    /\ fit_score.education_score = Some(10000)

\* C18: calculate_fit_score is total: for every gap analysis, all lists and
\* every pair of supplied weights (one only, both zero, a negative value) it
\* returns a FitScoreBreakdown and never raises.
C18_Total ==
    pc = "done" => (fit_score # None /\ ~IsError(fit_score))

\* The result the tiers below exact and synonym give for similarity s.
LowerTiers(returned, skill, same_category, s) ==
    IF 100 * s.n >= 85 * s.d
    THEN /\ returned # None
         /\ returned.skill = skill
         /\ returned.match_type = "fuzzy"
         /\ Same(returned.confidence, Ratio(80 * s.n, 100 * s.d))
    ELSE IF same_category /\ 100 * s.n >= 60 * s.d
    THEN /\ returned # None
         /\ returned.skill = skill
         /\ returned.match_type = "category"
         /\ Same(returned.confidence, Ratio(70 * s.n, 100 * s.d))
    ELSE returned = None

\* C19: for a pair that is neither an exact nor a synonym match, with s the
\* similarity of the normalized names, match_skills returns 'fuzzy' with
\* confidence s * 0.80 iff s >= 0.85; otherwise 'category' with confidence
\* s * 0.70 iff the categories are equal and s >= 0.60; otherwise None.  The
\* first tier that applies, in the order exact, synonym, fuzzy, category,
\* decides the result.
C19_LowerTiers ==
    (pc = "done" /\ call_match # Pending) =>
        IF exact_match(call_skill1, call_skill2)
        THEN call_match # None /\ call_match.match_type = "exact"
        ELSE IF synonym_match(call_skill1, call_skill2)
        THEN call_match # None /\ call_match.match_type = "synonym"
        ELSE LowerTiers(call_match, call_skill1,
                        call_skill1.category = call_skill2.category,
                        Similarity(levenshtein_installed, call_skill1, call_skill2))

\* A pair of the same category with 0.60 <= s < 0.85 gets a category match.
C19_Witness ==
    /\ pc = "done"
    /\ call_match # Pending
    /\ call_match # None
    /\ call_match.match_type = "category"
    /\ ~exact_match(call_skill1, call_skill2)
    /\ ~synonym_match(call_skill1, call_skill2)
    /\ call_skill1.category = call_skill2.category

\* The tiers in the order match_skills tries them, the first one highest.
TierRank(match) ==
    IF match = None THEN 0
    ELSE IF match.match_type = "exact" THEN 4
    ELSE IF match.match_type = "synonym" THEN 3
    ELSE IF match.match_type = "fuzzy" THEN 2
    ELSE 1

\* match_skills on the resume skill at index idx and the JD skill at position p.
PairMatch(idx, p) ==
    Match(levenshtein_installed, resume_skills[idx + 1], jd_skills[p])

\* What match_skills returns on the pairs of the request, None left out.
PairMatches ==
    {Match(levenshtein_installed, resume_skills[idx + 1], jd_skills[p]) :
         idx \in 0..(Len(resume_skills) - 1), p \in 1..Len(jd_skills)} \ {None}

ResumeIndices == 0..(Len(resume_skills) - 1)
JdPositions == 1..Len(jd_skills)

\* C20: the tiers are strictly ordered by confidence (exact 1.0 > synonym
\* 0.95 > any fuzzy > any category), every confidence is in (0, 1], and so
\* the match a JD skill selects in find_matches is of the highest tier among
\* its candidates.
C20_TierOrder ==
    /\ (pc = "find_matches" /\ jd_pos = 1) =>
           \A m \in PairMatches :
               /\ Less(Ratio(0, 1), m.confidence)
               /\ Leq(m.confidence, Ratio(1, 1))
               /\ TierRank(m) = 4 => Same(m.confidence, Ratio(100, 100))
               /\ TierRank(m) = 3 => Same(m.confidence, Ratio(95, 100))
               /\ \A n \in PairMatches :
                      TierRank(n) > TierRank(m) => Less(m.confidence, n.confidence)
    /\ pc = "find_matches" =>
           \A i \in 1..Len(matches) :
               /\ matches[i] = PairMatch(ResumeIndexOf(i), JdPosOf(i))
               /\ \A idx \in Candidates(JdPosOf(i)) :
                      TierRank(PairMatch(idx, JdPosOf(i))) <= TierRank(matches[i])

\* A JD skill with a fuzzy and a category candidate selected the fuzzy one,
\* although the category candidate comes first in the resume.
C20_Witness ==
    /\ pc = "find_matches"
    /\ \E i \in 1..Len(matches) :
           /\ matches[i].match_type = "fuzzy"
           /\ \E idx \in Candidates(JdPosOf(i)) :
                  /\ idx < ResumeIndexOf(i)
                  /\ PairMatch(idx, JdPosOf(i)).match_type = "category"

\* analyze_gap as a function of its arguments alone.
analyze_gap(installed, resume, jd) ==
    GapAnalysis(find_matches(installed, resume, jd),
                find_missing_skills(installed, resume, jd),
                find_extra_skills(installed, resume, jd))

SameArguments(c, d) ==
    /\ calls[c].resume_skills = calls[d].resume_skills
    /\ calls[c].jd_skills = calls[d].jd_skills

\* No step of any call changes the argument lists of a call.
ArgumentsKept ==
    \A c \in DOMAIN calls :
        /\ calls'[c].resume_skills = calls[c].resume_skills
        /\ calls'[c].jd_skills = calls[c].jd_skills

\* C17: analyze_gap is deterministic and keeps no state: however the steps
\* of concurrent calls interleave, calls with identical resume and JD lists
\* return equal GapAnalysis values (the value the arguments alone determine),
\* and no call modifies its input lists.  (The synonym table is a constant
\* of the module: no statement of the code assigns to it.)
C17_Deterministic ==
    /\ [](\A c \in DOMAIN calls :
              calls[c].pc = "done" =>
                  /\ calls[c].result =
                         analyze_gap(levenshtein_installed, calls[c].resume_skills,
                                     calls[c].jd_skills)
                  /\ \A d \in DOMAIN calls :
                         (calls[d].pc = "done" /\ SameArguments(c, d)) =>
                             calls[c].result = calls[d].result)
    /\ [][ArgumentsKept]_vars

\* Two calls with the same arguments ran overlapped and both returned a match.
C17_Witness ==
    \E c, d \in DOMAIN calls :
        /\ c # d
        /\ SameArguments(c, d)
        /\ calls[c].pc = "done"
        /\ calls[d].pc = "done"
        /\ calls[c].overlapped
        /\ calls[d].overlapped
        /\ calls[c].result.matched_skills # <<>>
        /\ calls[c].result = calls[d].result

\* Some resume skill, consumed or not, matches the JD skill at position p.
SomeResumeMatches(p) == \E idx \in ResumeIndices : PairMatch(idx, p) # None

\* Some JD skill matches the resume skill at index idx.
SomeJdMatches(idx) == \E p \in JdPositions : PairMatch(idx, p) # None

\* C21: missing and extra are decided by the pairwise re-check alone: a JD
\* skill is in missing_skills iff no resume skill matches it, and a resume
\* skill is in extra_skills iff no JD skill matches it.
C21_IndependentRecheck ==
    pc = "fit_score" =>
        /\ \A p \in JdPositions :
               jd_skills[p] \in SeqRange(gap_analysis.missing_skills)
                   <=> ~SomeResumeMatches(p)
        /\ \A idx \in ResumeIndices :
               resume_skills[idx + 1] \in SeqRange(gap_analysis.extra_skills)
                   <=> ~SomeJdMatches(idx)

\* The size of a maximum one-to-one assignment of the JD skills from position
\* p on to resume indices outside used, over the pairs match_skills accepts.
RECURSIVE MaxAssignment(_, _)
MaxAssignment(p, used) ==
    IF p > Len(jd_skills) THEN 0
    ELSE SetMax({MaxAssignment(p + 1, used)}
                \cup {1 + MaxAssignment(p + 1, used \cup {idx}) :
                         idx \in {i \in ResumeIndices \ used : PairMatch(i, p) # None}})

Reversed(s) == [i \in 1..Len(s) |-> s[Len(s) + 1 - i]]

\* find_matches(resume, jd) appends a match for the JD skill at position p:
\* the matches of a prefix of the JD list are a prefix of the matches.
GreedyMatched(installed, resume, jd, p) ==
    Len(find_matches(installed, resume, SubSeq(jd, 1, p)))
        > Len(find_matches(installed, resume, SubSeq(jd, 1, p - 1)))

\* Lists on which the first JD skill takes the only resume skill the second
\* JD skill matches, although another resume skill matches the first.
GreedyInstance ==
    /\ resume_skills = <<Skill("Python", "programming_languages"),
                         Skill("Pythons", "programming_languages")>>
    /\ jd_skills = <<Skill("python", "other"), Skill("py", "programming_languages")>>

\* C22: find_matches is a greedy pass in JD order, not an optimal assignment:
\* it never returns more matches than a maximum one-to-one assignment, and
\* there are lists on which it returns strictly fewer and on which permuting
\* the JD list changes which JD skills are matched.
C22_GreedyNotOptimal ==
    pc = "find_missing" =>
        /\ Len(matched_skills) <= MaxAssignment(1, {})
        /\ GreedyInstance =>
               /\ Len(matched_skills) < MaxAssignment(1, {})
               /\ \E p \in JdPositions :
                      /\ MatchesOfJd(p) = {}
                      /\ GreedyMatched(levenshtein_installed, resume_skills,
                                       Reversed(jd_skills), Len(jd_skills) + 1 - p)

C22_Witness ==
    /\ pc = "find_missing"
    /\ GreedyInstance
    /\ Len(matched_skills) = 1
    /\ MaxAssignment(1, {}) = 2
    /\ MatchesOfJd(2) = {}
    /\ Len(find_matches(levenshtein_installed, resume_skills, Reversed(jd_skills))) = 2

\* The number of positions of a list of skills whose category is c.
SkillsOf(skills, c) ==
    Cardinality({i \in 1..Len(skills) : skills[i].category = c})

\* The number of positions of matched_skills whose skill has category c.
MatchesOf(found, c) ==
    Cardinality({i \in 1..Len(found) : found[i].skill.category = c})

\* The sum of one counter over the entries of the categories in S.
RECURSIVE SumCounter(_, _, _)
SumCounter(breakdown, counter, S) ==
    IF S = {} THEN 0
    ELSE breakdown[CHOOSE c \in S : TRUE][counter]
             + SumCounter(breakdown, counter, S \ {CHOOSE c \in S : TRUE})

\* C23: category_breakdown is consistent with the three lists: each entry
\* holds the numbers of matched, missing and extra skills of its category, a
\* category has an entry iff one of them is not 0, every entry has exactly
\* the three counters, and the counters sum to the lengths of the lists.
C23_BreakdownConsistent ==
    pc = "fit_score" =>
        /\ \A c \in DOMAIN gap_analysis.category_breakdown :
               /\ DOMAIN gap_analysis.category_breakdown[c]
                      = {"matched", "missing", "extra"}
               /\ gap_analysis.category_breakdown[c].matched
                      = MatchesOf(gap_analysis.matched_skills, c)
               /\ gap_analysis.category_breakdown[c].missing
                      = SkillsOf(gap_analysis.missing_skills, c)
               /\ gap_analysis.category_breakdown[c].extra
                      = SkillsOf(gap_analysis.extra_skills, c)
        /\ \A c \in AllCategories :
               c \in DOMAIN gap_analysis.category_breakdown
                   <=> \/ MatchesOf(gap_analysis.matched_skills, c) > 0
                       \/ SkillsOf(gap_analysis.missing_skills, c) > 0
                       \/ SkillsOf(gap_analysis.extra_skills, c) > 0
        /\ DOMAIN gap_analysis.category_breakdown \subseteq AllCategories
        /\ SumCounter(gap_analysis.category_breakdown, "matched",
                      DOMAIN gap_analysis.category_breakdown)
               = Len(gap_analysis.matched_skills)
        /\ SumCounter(gap_analysis.category_breakdown, "missing",
                      DOMAIN gap_analysis.category_breakdown)
               = Len(gap_analysis.missing_skills)
        /\ SumCounter(gap_analysis.category_breakdown, "extra",
                      DOMAIN gap_analysis.category_breakdown)
               = Len(gap_analysis.extra_skills)

\* An entry without matched skills, and one with matched and extra skills.
C23_Witness ==
    /\ pc = "fit_score"
    /\ Cardinality(DOMAIN gap_analysis.category_breakdown) >= 2
    /\ \E c \in DOMAIN gap_analysis.category_breakdown :
           /\ gap_analysis.category_breakdown[c].matched = 0
           /\ gap_analysis.category_breakdown[c].missing > 0
    /\ \E c \in DOMAIN gap_analysis.category_breakdown :
           /\ gap_analysis.category_breakdown[c].matched > 0
           /\ gap_analysis.category_breakdown[c].extra > 0

\* The keys of the entries that list the name, as key or as alias.
EntriesOf(name) ==
    {key \in DOMAIN SKILL_SYNONYMS : name \in {key} \cup SKILL_SYNONYMS[key]}

\* C24: get_synonyms always contains the normalized input; for every entry
\* of the synonym table and every name of the entry (key or alias) it
\* contains the key and all the aliases; so synonym_match holds for two names
\* of one entry, and synonym_match is symmetric.
C24_Bidirectional ==
    pc = "done" =>
        /\ normalize_skill_name(call_skill1.name) \in get_synonyms(call_skill1.name)
        /\ \A key \in EntriesOf(call_skill1.name) :
               {key} \cup SKILL_SYNONYMS[key] \subseteq get_synonyms(call_skill1.name)
        /\ EntriesOf(call_skill1.name) \cap EntriesOf(call_skill2.name) # {} =>
               synonym_match(call_skill1, call_skill2)
        /\ synonym_match(call_skill1, call_skill2) <=> synonym_match(call_skill2, call_skill1)

\* An alias that normalization changes ('node.js' becomes 'node') resolved
\* to the key of its entry; the second name is the key.
C24_Witness ==
    /\ pc = "done"
    /\ normalize_skill_name(call_skill1.name) # call_skill1.name
    /\ \E key \in EntriesOf(call_skill1.name) :
           /\ call_skill1.name # key
           /\ call_skill2.name = key
           /\ key \in get_synonyms(call_skill1.name)
    /\ synonym_match(call_skill1, call_skill2)

\* levenshtein_ratio gives the two orders of the names the same value.
SymmetricRatio(installed, skill1, skill2) ==
    Same(Similarity(installed, skill1, skill2), Similarity(installed, skill2, skill1))

\* The two results agree on everything but the carried skill.
Mirrored(forward, backward, skill1, skill2) ==
    IF forward = None THEN backward = None
    ELSE /\ backward # None
         /\ forward.match_type = backward.match_type
         /\ Same(forward.confidence, backward.confidence)
         /\ forward.skill = skill1
         /\ backward.skill = skill2

\* C26: match_skills is symmetric up to the carried skill: when the
\* similarity ratio is symmetric on the two names, match_skills(a, b)
\* returns a match iff match_skills(b, a) does, with the same match_type and
\* confidence; the skill field is the first argument of each call.
C26_Symmetric ==
    pc = "done" =>
        \/ Mirrored(call_match,
                    match_skills(levenshtein_installed, call_skill2, call_skill1),
                    call_skill1, call_skill2)
        \/ ~SymmetricRatio(levenshtein_installed, call_skill1, call_skill2)

\* A category match between different skills, with the difflib fallback.
C26_Witness ==
    /\ pc = "done"
    /\ ~levenshtein_installed
    /\ SymmetricRatio(levenshtein_installed, call_skill1, call_skill2)
    /\ call_match # None
    /\ call_match.match_type \in {"fuzzy", "category"}
    /\ call_skill1 # call_skill2
    /\ match_skills(levenshtein_installed, call_skill2, call_skill1).skill = call_skill2

\* sub is s restricted to some of its positions, in the order of s.
RECURSIVE IsSubsequence(_, _)
IsSubsequence(sub, s) ==
    IF sub = <<>> THEN TRUE
    ELSE IF s = <<>> THEN FALSE
    ELSE IF Head(sub) = Head(s) THEN IsSubsequence(Tail(sub), Tail(s))
    ELSE IsSubsequence(sub, Tail(s))

\* C27: output order follows input order: the matches are in the order of the
\* JD skills they were found for, each JD position and each resume index
\* occurring at most once; missing_skills is a subsequence of the JD list and
\* extra_skills a subsequence of the resume list.
C27_InputOrder ==
    /\ pc = "find_matches" =>
           /\ Len(matches) = Len(match_origin)
           /\ \A i \in 1..Len(matches) :
                  matches[i] = PairMatch(ResumeIndexOf(i), JdPosOf(i))
           /\ \A a, b \in 1..Len(match_origin) :
                  a < b => /\ JdPosOf(a) < JdPosOf(b)
                           /\ ResumeIndexOf(a) # ResumeIndexOf(b)
    /\ pc = "fit_score" =>
           /\ gap_analysis.matched_skills = matches
           /\ IsSubsequence(gap_analysis.missing_skills, jd_skills)
           /\ IsSubsequence(gap_analysis.extra_skills, resume_skills)

\* Two matches whose resume indices are in the opposite order of their JD
\* positions, and two missing skills.
C27_Witness ==
    /\ pc = "find_matches"
    /\ jd_pos > Len(jd_skills)
    /\ \E a, b \in 1..Len(match_origin) :
           /\ a < b
           /\ ResumeIndexOf(a) > ResumeIndexOf(b)
           /\ matches[a] # matches[b]

\* The resume skills before the last one was appended.
ShorterResume == SubSeq(resume_skills, 1, Len(resume_skills) - 1)

\* analyze_gap followed by calculate_fit_score for a resume skill list, with
\* the JD and the weights of the request.
ScoreOf(resume) ==
    calculate_fit_score(
        analyze_gap(levenshtein_installed, resume, jd_skills),
        SkillExtractionResult(resume, education.resume, certifications.resume),
        SkillExtractionResult(jd_skills, education.jd, certifications.jd),
        WeightOf(weights, "technical"),
        WeightOf(weights, "soft_skills"))

NeverLower(before, after) ==
    (~IsError(before) /\ ~IsError(after)) =>
        /\ before.technical_score <= after.technical_score
        /\ before.soft_skills_score <= after.soft_skills_score
        /\ before.overall_score <= after.overall_score
        /\ before.matched_count <= after.matched_count

\* C28: for a fixed JD and fixed weights, appending one more skill to the end
\* of the resume skill list never lowers technical_score, soft_skills_score,
\* overall_score or the number of matched skills.
C28_Monotone ==
    (pc = "done" /\ resume_skills # <<>>) =>
        NeverLower(ScoreOf(ShorterResume), fit_score)

\* -------------------------------------------------------------------------
\* Unified extraction: extract_from_text and the five parallel sub-extractions
\* -------------------------------------------------------------------------

\* A Python pair (result, error); a list is Some(list), an exception caught by
\* asyncio.gather(return_exceptions=True) is [exception |-> str(e)].
Pair(result, error) == [result |-> result, error |-> error]
IsPair(x) == DOMAIN x = {"result", "error"}
IsException(x) == "exception" \in DOMAIN x
IsList(x) == DOMAIN x = {"some"}

TooShort == "Text is too short or empty"
NotConfigured == "LLM service is not configured. Please set OPENAI_API_KEY in .env file."
NotConfiguredUnified ==
    "LLM service is not configured. Please set OPENAI_API_KEY in your .env file. Skill extraction requires OpenAI API access."

\* llm_service.is_configured()
is_configured(llm_client) == llm_client # None

\* "if not text or len(text.strip()) < 10"
IsTooShort(given) == given = "" \/ Len(Strip(given)) < 10

ExtractedSkill(name, category, confidence) ==
    [name |-> name, category |-> category, confidence |-> confidence]

\* The five tasks in the order in which asyncio.gather is given them.
Tasks == <<"technical", "soft", "methodologies", "education", "certifications">>

\* What the LLM gives each sub-extraction when it succeeds.
Extracted(task) ==
    CASE task = "technical" ->
             <<ExtractedSkill("Python", "programming_languages", Some(90)),
               ExtractedSkill("py", "programming_languages", None)>>
      [] task = "soft" -> <<ExtractedSkill("Leadership", "leadership", Some(70))>>
      [] task = "methodologies" -> <<ExtractedSkill("Agile", "agile", Some(80))>>
      [] task = "education" -> <<Education(Some("B.Sc"), Some("Computer Science"), FALSE, FALSE)>>
      [] task = "certifications" -> <<>>

\* What happens inside a sub-extraction: the LLM call and the parsing succeed,
\* they raise (caught by the extractor), or the executor itself raises.
LlmOutcomes == {"ok", "failed", "raised"}

\* extract_skills, extract_soft_skills, extract_education and
\* extract_certifications: (list, error).
extract_skills(task, llm_client, given, outcome) ==
    IF IsTooShort(given) THEN Pair(Some(<<>>), Some(TooShort))
    ELSE IF ~is_configured(llm_client) THEN Pair(Some(<<>>), Some(NotConfigured))
    ELSE IF outcome = "ok" THEN Pair(Some(Extracted(task)), None)
    ELSE Pair(Some(<<>>), Some("Error extracting " \o task \o ": boom"))

\* extract_methodologies: a list, empty when anything failed.
extract_methodologies(llm_client, given, outcome) ==
    IF IsTooShort(given) \/ ~is_configured(llm_client) \/ outcome # "ok"
    THEN Some(<<>>)
    ELSE Some(Extracted("methodologies"))

\* Python: error and "not configured" in error
IsCritical(error) == error # None /\ error.some # "" /\ Contains(error.some, "not configured")

\* The coroutines extract_technical, extract_soft, extract_methodologies,
\* extract_education and extract_certifications of _extract_parallel.
Task(task, llm_client, given, outcome) ==
    IF outcome = "raised" THEN [exception |-> "cannot schedule new futures"]
    ELSE IF task = "methodologies" THEN extract_methodologies(llm_client, given, outcome)
    ELSE LET pair == extract_skills(task, llm_client, given, outcome) IN
         IF IsCritical(pair.error) THEN Pair(None, pair.error) ELSE pair

\* "technical_skills, tech_error = ..." for the tasks that return a pair.
Unpack(gathered) ==
    IF IsException(gathered) THEN Pair(Some(<<>>), Some(gathered.exception))
    ELSE IF IsPair(gathered) THEN gathered
    ELSE Pair(Some(<<>>), None)

\* "methodologies = ..."
UnpackList(gathered) ==
    IF IsException(gathered) THEN Some(<<>>)
    ELSE IF IsList(gathered) THEN gathered
    ELSE Some(<<>>)

\* Python: "x or []"
OrEmpty(x) == IF x = None THEN <<>> ELSE x.some

RECURSIVE SumConfidence(_)
SumConfidence(skills) ==
    IF skills = <<>> THEN 0
    ELSE (IF Head(skills).confidence = None THEN 0 ELSE Head(skills).confidence.some)
         + SumConfidence(Tail(skills))

\* confidence_score: the average of the confidences that are not None.
ConfidenceScore(all_skills) ==
    LET confidences == SelectSeq(all_skills, LAMBDA s : s.confidence # None) IN
    IF confidences = <<>> THEN None
    ELSE Some(Ratio(SumConfidence(confidences), Len(confidences)))

FirstCritical(errors) ==
    LET critical == SelectSeq(errors, IsCritical) IN
    IF critical = <<>> THEN None ELSE Head(critical)

\* _extract_parallel, after asyncio.gather has returned.
_extract_parallel(gathered, given) ==
    LET technical == Unpack(gathered[1])
        soft == Unpack(gathered[2])
        methodologies == UnpackList(gathered[3])
        edu == Unpack(gathered[4])
        certs == Unpack(gathered[5])
        critical == FirstCritical(<<technical.error, soft.error, edu.error, certs.error>>)
        all_skills == OrEmpty(technical.result) \o OrEmpty(soft.result)
                          \o OrEmpty(methodologies)
    IN  IF critical # None THEN Pair(None, critical)
        ELSE Pair(Some([skills |-> all_skills,
                        education |-> OrEmpty(edu.result),
                        certifications |-> OrEmpty(certs.result),
                        extraction_method |-> "llm",
                        confidence_score |-> ConfidenceScore(all_skills),
                        raw_text |-> given]),
                  None)

TextInputs == {"", "Python", "Python and Leadership"}

\* The gap analysis is not running.
AnalysisIdle ==
    /\ levenshtein_installed = TRUE
    /\ resume_skills = <<>>
    /\ jd_skills = <<>>
    /\ education = [resume |-> <<>>, jd |-> <<>>]
    /\ certifications = [resume |-> <<>>, jd |-> <<>>]
    /\ jd_pos = 1
    /\ matches = <<>>
    /\ matched_resume_indices = {}
    /\ match_origin = <<>>
    /\ matched_skills = <<>>
    /\ missing_skills = <<>>
    /\ extra_skills = <<>>
    /\ gap_analysis = None
    /\ fit_score = None
    /\ weights = None
    /\ call_skill1 = None
    /\ call_skill2 = None
    /\ call_match = None
    /\ calls = <<>>

analysis == <<levenshtein_installed, call, request, calls>>
storage == <<_files, clock, file_data, parse_result>>
llm_call == <<attempt, provider_calls, response>>

InitExtraction ==
    /\ AnalysisIdle
    /\ pc = "extract_from_text"
    /\ client \in {None, Some("OpenAI")}
    /\ text \in TextInputs
    /\ results = [i \in 1..Len(Tasks) |-> Pending]
    /\ extraction = Pending
    /\ _files = <<>>
    /\ clock = 0
    /\ file_data = None
    /\ parse_result = None
    /\ attempt = 0
    /\ provider_calls = <<>>
    /\ response = None

\* extract_from_text up to the start of the parallel extraction.
ExtractFromText ==
    /\ pc = "extract_from_text"
    /\ IF IsTooShort(text)
       THEN extraction' = Pair(None, Some(TooShort)) /\ pc' = "done"
       ELSE IF ~is_configured(client)
       THEN extraction' = Pair(None, Some(NotConfiguredUnified)) /\ pc' = "done"
       ELSE extraction' = extraction /\ pc' = "gather"
    /\ UNCHANGED <<analysis, client, text, results, storage, llm_call>>

\* One of the five tasks completes; they run in parallel, so in any order.
TaskCompletes(i) ==
    /\ pc = "gather"
    /\ results[i] = Pending
    /\ \E outcome \in LlmOutcomes :
           results' = [results EXCEPT ![i] = Task(Tasks[i], client, text, outcome)]
    /\ UNCHANGED <<analysis, pc, client, text, extraction, storage, llm_call>>

\* asyncio.gather returns; _extract_parallel and extract_from_text return.
ExtractParallelReturn ==
    /\ pc = "gather"
    /\ \A i \in 1..Len(Tasks) : results[i] # Pending
    /\ extraction' = _extract_parallel(results, text)
    /\ pc' = "done"
    /\ UNCHANGED <<analysis, client, text, results, storage, llm_call>>

NextExtraction ==
    \/ ExtractFromText
    \/ \E i \in 1..Len(Tasks) : TaskCompletes(i)
    \/ ExtractParallelReturn

SpecExtraction == InitExtraction /\ [][NextExtraction]_vars

\* A sub-extraction failed: it raised or it returned an error.
Failed(gathered) ==
    \/ IsException(gathered)
    \/ IsPair(gathered) /\ gathered.error # None

\* C25: if any of the five sub-extractions raises or returns an error,
\* extract_from_text returns an error and no SkillExtractionResult.
C25_FailureAborts ==
    (pc = "done" /\ \E i \in 1..Len(Tasks) : results[i] # Pending /\ Failed(results[i])) =>
        /\ extraction.result = None
        /\ extraction.error # None

\* -------------------------------------------------------------------------
\* File storage: extract_from_file_id against delete_file, cleanup_expired
\* and session expiry
\* -------------------------------------------------------------------------

MaxClock == 2

\* _session_timeout, in hours.
SessionTimeout == 1

FileId == "f1"

NotFound == "File not found or session expired"

\* store_file: the record of an uploaded file.
StoredFile(file_type, parsed) ==
    [file_type |-> file_type, source_type |-> "resume", uploaded_at |-> 0,
     parsed_text |-> parsed]

Stored(files) == FileId \in DOMAIN files

\* "datetime.now() - file_data['uploaded_at'] > self._session_timeout"
Expired(record, time) == time - record.uploaded_at > SessionTimeout

\* update_file_text: the value returned and the files afterwards.
update_file_text(files, parsed) ==
    IF Stored(files)
    THEN [stored |-> TRUE,
          files |-> [files EXCEPT ![FileId].parsed_text = Some(parsed)]]
    ELSE [stored |-> FALSE, files |-> files]

\* What the parsers give: a text, an empty text, or an error.
ParserOutcomes ==
    {Pair(Some("Python and Leadership"), None),
     Pair(Some("Python"), None),
     Pair(Some(""), None),
     Pair(None, Some("Error parsing file"))}

FileTypes == {"pdf", "docx", "txt", "exe"}

\* The locals of extract_from_file_id and parse_file after a step.
Locals(position, returned, data, parsed, parsing) ==
    [pc |-> position, extraction |-> returned, file_data |-> data, text |-> parsed,
     parse_result |-> parsing]

ParseResult(success, error, stored) ==
    [success |-> success, error |-> error, stored |-> stored]

\* What extract_from_file_id and parse_file do with the value of a get_file.
AfterGetFile(lookup, found) ==
    CASE lookup = "get_file" ->
             IF found = None
             THEN Locals("done", Pair(None, Some(NotFound)), None, text, parse_result)
             ELSE IF Truthy(found.some.parsed_text)
             THEN Locals("extract_from_text", extraction, found,
                         found.some.parsed_text, parse_result)
             ELSE Locals("parse_file.get_file", extraction, found,
                         found.some.parsed_text, parse_result)
      [] lookup = "parse_file.get_file" ->
             IF found = None
             THEN Locals("done", Pair(None, Some(NotFound)), None, text,
                         ParseResult(FALSE, Some(NotFound), None))
             ELSE IF Truthy(found.some.parsed_text)
             THEN Locals("get_file_again", extraction, found, text,
                         ParseResult(TRUE, None, None))
             ELSE Locals("parse_file.update_file_text", extraction, found, text,
                         parse_result)
      [] lookup = "get_file_again" ->
             IF found = None
             THEN Locals("raised",
                         [exception |-> "'NoneType' object has no attribute 'get'"],
                         None, text, parse_result)
             ELSE IF Truthy(found.some.parsed_text)
             THEN Locals("extract_from_text", extraction, found,
                         found.some.parsed_text, parse_result)
             ELSE Locals("done", Pair(None, Some("Could not extract text from file")),
                         found, found.some.parsed_text, parse_result)

Lookups == {"get_file", "parse_file.get_file", "get_file_again"}

Assign(locals) ==
    /\ pc' = locals.pc
    /\ extraction' = locals.extraction
    /\ file_data' = locals.file_data
    /\ text' = locals.text
    /\ parse_result' = locals.parse_result

InitFileStorage ==
    /\ AnalysisIdle
    /\ pc = "get_file"
    /\ client \in {None, Some("OpenAI")}
    /\ text = None
    /\ results = <<>>
    /\ extraction = Pending
    /\ \/ _files = <<>>
       \/ \E file_type \in FileTypes,
             parsed \in {None, Some("Python and Leadership")} :
              _files = FileId :> StoredFile(file_type, parsed)
    /\ clock \in 0..1
    /\ file_data = None
    /\ parse_result = None
    /\ attempt = 0
    /\ provider_calls = <<>>
    /\ response = None

\* get_file: "if file_id in self._files"
GetFileCheck ==
    /\ pc \in Lookups
    /\ IF Stored(_files)
       THEN /\ pc' = pc \o ".read"
            /\ UNCHANGED <<extraction, file_data, text, parse_result>>
       ELSE Assign(AfterGetFile(pc, None))
    /\ UNCHANGED <<analysis, client, results, _files, clock, llm_call>>

\* get_file: "file_data = self._files[file_id]", the expiry test and the return.
GetFileRead ==
    /\ \E lookup \in Lookups :
           /\ pc = lookup \o ".read"
           /\ IF ~Stored(_files)
              THEN /\ Assign(Locals("raised", [exception |-> "KeyError: 'f1'"],
                                    file_data, text, parse_result))
                   /\ _files' = _files
              ELSE IF Expired(_files[FileId], clock)
              THEN /\ Assign(AfterGetFile(lookup, None))
                   /\ _files' = <<>>
              ELSE /\ Assign(AfterGetFile(lookup, Some(_files[FileId])))
                   /\ _files' = _files
    /\ UNCHANGED <<analysis, client, results, clock, llm_call>>

\* parse_file from the choice of the parser to its return, and what
\* extract_from_file_id does with (success, parse_error).
ParseFile ==
    /\ pc = "parse_file.update_file_text"
    /\ LET file_type == file_data.some.file_type IN
       IF file_type \notin {"pdf", "docx", "txt"}
       THEN /\ Assign(Locals("done",
                             Pair(None, Some("Unsupported file type: " \o file_type)),
                             file_data, text,
                             ParseResult(FALSE,
                                         Some("Unsupported file type: " \o file_type),
                                         None)))
            /\ _files' = _files
       ELSE \E parser \in ParserOutcomes :
                IF parser.error # None
                THEN /\ Assign(Locals("done", Pair(None, parser.error), file_data, text,
                                      ParseResult(FALSE, parser.error, None)))
                     /\ _files' = _files
                ELSE LET updated == update_file_text(_files, parser.result.some) IN
                     /\ Assign(Locals("get_file_again", extraction, file_data, text,
                                      ParseResult(TRUE, None, Some(updated.stored))))
                     /\ _files' = updated.files
    /\ UNCHANGED <<analysis, client, results, clock, llm_call>>

\* "return UnifiedSkillExtractor.extract_from_text(parsed_text, source_type)"
ExtractStoredText ==
    /\ pc = "extract_from_text"
    /\ pc' = "done"
    /\ IF IsTooShort(text.some)
       THEN extraction' = Pair(None, Some(TooShort))
       ELSE IF ~is_configured(client)
       THEN extraction' = Pair(None, Some(NotConfiguredUnified))
       ELSE \E outcome \in LlmOutcomes :
                extraction' =
                    _extract_parallel(
                        [i \in 1..Len(Tasks) |-> Task(Tasks[i], client, text.some, outcome)],
                        text.some)
    /\ UNCHANGED <<analysis, client, text, results, _files, clock, file_data,
                   parse_result, llm_call>>

Running == pc \notin {"done", "raised"}

\* delete_file(file_id), from another request.
DeleteFile ==
    /\ Running
    /\ Stored(_files)
    /\ _files' = <<>>
    /\ UNCHANGED <<analysis, pc, client, text, results, extraction, clock, file_data,
                   parse_result, llm_call>>

\* cleanup_expired()
CleanupExpired ==
    /\ Running
    /\ Stored(_files)
    /\ Expired(_files[FileId], clock)
    /\ _files' = <<>>
    /\ UNCHANGED <<analysis, pc, client, text, results, extraction, clock, file_data,
                   parse_result, llm_call>>

\* Time passes.
Tick ==
    /\ Running
    /\ clock < MaxClock
    /\ clock' = clock + 1
    /\ UNCHANGED <<analysis, pc, client, text, results, extraction, _files, file_data,
                   parse_result, llm_call>>

NextFileStorage ==
    \/ GetFileCheck
    \/ GetFileRead
    \/ ParseFile
    \/ ExtractStoredText
    \/ DeleteFile
    \/ CleanupExpired
    \/ Tick

SpecFileStorage == InitFileStorage /\ [][NextFileStorage]_vars

\* C29: whatever delete_file, cleanup_expired and the session expiry do in
\* between, extract_from_file_id ends by returning a (result, error) pair,
\* with (None, error) when a lookup found no file; it never dereferences a
\* missing file record, and parse_file reports success only when the parsed
\* text was stored.
C29_SafeLookup ==
    /\ pc # "raised"
    /\ pc = "done" => IsPair(extraction)
    /\ (pc = "done" /\ file_data = None) =>
           (extraction.result = None /\ extraction.error # None)
    /\ (parse_result # None /\ parse_result.success /\ parse_result.stored # None) =>
           parse_result.stored.some

\* -------------------------------------------------------------------------
\* LLMService.call_api and its retries
\* -------------------------------------------------------------------------

max_retries == 3

\* An exception of the provider: its class, its status_code where the class
\* has one, and whether its text contains "insufficient_quota".
ApiError(class, status_code, quota) ==
    [class |-> class, status_code |-> status_code, quota |-> quota]

Ok == [content |-> "{}"]

\* What self.client.chat.completions.create can do.
ProviderOutcomes ==
    {Ok,
     ApiError("RateLimitError", Some(429), FALSE),
     ApiError("APIConnectionError", None, FALSE),
     ApiError("APIError", Some(429), FALSE),
     ApiError("APIError", Some(429), TRUE),
     ApiError("APIError", Some(500), FALSE),
     ApiError("APIError", Some(403), TRUE),
     ApiError("ValueError", None, FALSE)}

IsApiError(outcome) ==
    outcome # Ok /\ outcome.class \in {"RateLimitError", "APIConnectionError", "APIError"}

HasStatus(error, code) == error.status_code # None /\ error.status_code.some = code

\* Variant: every APIError is retried while attempts are left.
_handle_api_error_RetryAll(error, this_attempt) ==
    IF this_attempt < max_retries THEN None
    ELSE Some("API error: " \o error.class)

\* _handle_api_error: None to retry, the message of the exception otherwise.
_handle_api_error(error, this_attempt) ==
    IF error.class = "RateLimitError"
    THEN IF this_attempt < max_retries THEN None
         ELSE Some("Rate limit exceeded. Please try again later.")
    ELSE IF error.class = "APIConnectionError"
    THEN IF this_attempt < max_retries THEN None
         ELSE Some("Connection error. Please check your internet connection.")
    ELSE IF error.class = "APIError"
    THEN IF HasStatus(error, 429) /\ this_attempt < max_retries THEN None
         ELSE IF error.quota THEN Some("OpenAI API quota exceeded.")
         ELSE IF HasStatus(error, 429)
         THEN Some("Rate limit exceeded. Please try again later. Error: " \o error.class)
         ELSE Some("API error: " \o error.class)
    ELSE Some("Unexpected error: " \o error.class)

Raise(message) == [exception |-> message]

InitCallApi ==
    /\ AnalysisIdle
    /\ pc = "call_api"
    /\ client \in {None, Some("OpenAI")}
    /\ text = None
    /\ results = <<>>
    /\ extraction = None
    /\ _files = <<>>
    /\ clock = 0
    /\ file_data = None
    /\ parse_result = None
    /\ attempt = 0
    /\ provider_calls = <<>>
    /\ response = Pending

\* call_api up to the first attempt.
CallApi ==
    /\ pc = "call_api"
    /\ IF client = None
       THEN /\ response' = Raise("OpenAI API key not configured.")
            /\ pc' = "done"
            /\ attempt' = attempt
       ELSE /\ response' = response
            /\ pc' = "attempt"
            /\ attempt' = 1
    /\ UNCHANGED <<analysis, client, text, results, extraction, storage, provider_calls>>

\* One pass of "for attempt in range(1, self.max_retries + 1)".
Attempt ==
    /\ pc = "attempt"
    /\ \E outcome \in ProviderOutcomes :
           /\ provider_calls' = Append(provider_calls, outcome)
           /\ IF outcome = Ok
              THEN /\ response' = outcome
                   /\ pc' = "done"
                   /\ attempt' = attempt
              ELSE IF ~IsApiError(outcome)
              THEN /\ response' = Raise("Unexpected error: " \o outcome.class)
                   /\ pc' = "done"
                   /\ attempt' = attempt
              ELSE LET error_msg == _handle_api_error(outcome, attempt) IN
                   IF Truthy(error_msg)
                   THEN /\ response' = Raise(error_msg.some)
                        /\ pc' = "done"
                        /\ attempt' = attempt
                   ELSE IF attempt = max_retries
                   THEN /\ response' = Raise("API call failed after 3 attempts")
                        /\ pc' = "done"
                        /\ attempt' = attempt
                   ELSE /\ response' = response
                        /\ pc' = pc
                        /\ attempt' = attempt + 1
    /\ UNCHANGED <<analysis, client, text, results, extraction, storage>>

NextCallApi ==
    \/ CallApi
    \/ Attempt

\* The thread that runs call_api keeps running; its sleeps are finite.
SpecCallApi == InitCallApi /\ [][NextCallApi]_vars /\ WF_vars(NextCallApi)

\* A rate-limit error (RateLimitError, or APIError with status 429) or a
\* connection error.
Retryable(outcome) ==
    /\ outcome # Ok
    /\ \/ outcome.class \in {"RateLimitError", "APIConnectionError"}
       \/ outcome.class = "APIError" /\ HasStatus(outcome, 429)

Attempts == Len(provider_calls)

CallApiSafe ==
    /\ attempt <= max_retries
    /\ Attempts <= max_retries
    /\ pc = "attempt" => (Attempts = attempt - 1 /\ response = Pending)
    /\ \A k \in 1..(Attempts - 1) : Retryable(provider_calls[k])
    /\ pc = "done" =>
           IF client = None
           THEN Attempts = 0 /\ IsException(response)
           ELSE /\ Attempts = attempt
                /\ Attempts >= 1
                /\ IF provider_calls[Attempts] = Ok
                   THEN response = Ok
                   ELSE /\ IsException(response)
                        /\ Retryable(provider_calls[Attempts]) => Attempts = max_retries

====
